---- MODULE Spec2Model ----
(***************************************************************************)
(* Model of the slide transplant engine of app/ppt_merge.py:               *)
(* merge_with_template and the helpers it drives.  A deck is a sequence of *)
(* slides; a shape is a record of the XML facts the engine reads or        *)
(* writes: its placeholder binding, its geometry transform, its text style *)
(* nodes and the elements that carry relationship-id attributes.           *)
(*                                                                         *)
(* Absent values are empty tuples: xfrm = <<>> is a shape without          *)
(* <a:xfrm>, ph = <<>> a shape without <p:ph>, bg = <<>> a part without    *)
(* <p:bg>.  A font size of 0 is an absent sz attribute.                    *)
(***************************************************************************)
EXTENDS Integers, Sequences, FiniteSets, TLC

\* ---------------------------------------------------------------- bounds
MaxSources == 2
MaxSlides == 2
MaxPre == 1
MaxLayouts == 2
MaxTemplates == 3
MaxTexts == 3
MaxJobs == 2

\* ------------------------------------------------------ program constants
DefaultTitleSize == 2400
BlankBonus == 200
TitleSlideBonus == 20
PlaceholderWeight == 100
TextWeight == 10

\* ------------------------------------------------------------- utilities
Max(a, b) == IF a >= b THEN a ELSE b

RECURSIVE SumSeq(_)
SumSeq(s) == IF s = <<>> THEN 0 ELSE Head(s) + SumSeq(Tail(s))

\* Python's int(a * (b / c)) for c > 0: the quotient a*b/c truncated toward
\* zero (the float product is taken as exact).
TruncDiv(a, c) == IF a >= 0 THEN a \div c ELSE -((-a) \div c)
ScaleInt(v, dst, src) == TruncDiv(v * dst, src)

\* ------------------------------------------------------- source material
\* A relationship of a source part.  imgOk: reading the target's blob and
\* adding it to the destination as an image part succeeds.  rawOk: the raw
\* get_or_add / get_or_add_ext_rel on the destination succeeds.
SrcRel(type, ext, target, imgOk, rawOk) ==
    [reltype |-> type, is_external |-> ext, target |-> target,
     imgOk |-> imgOk, rawOk |-> rawOk]

\* The relationship table of a source slide part.  rId9 is in no table.
SlideRels ==
    (1 :> SrcRel("slideLayout", FALSE, "layoutPart", FALSE, TRUE)) @@
    (2 :> SrcRel("image", FALSE, "blobA", TRUE, TRUE)) @@
    (3 :> SrcRel("image", FALSE, "blobB", FALSE, TRUE)) @@
    (4 :> SrcRel("hyperlink", TRUE, "http://example", FALSE, TRUE)) @@
    (5 :> SrcRel("tags", FALSE, "tagPart", FALSE, TRUE)) @@
    (6 :> SrcRel("image", TRUE, "file:///linked.png", FALSE, TRUE)) @@
    (7 :> SrcRel("image", FALSE, "blobD", FALSE, FALSE))

\* The relationship table of a source layout part: the same id values as
\* the slide's, bound to unrelated targets.
LayoutRels ==
    (1 :> SrcRel("slideMaster", FALSE, "masterPart", FALSE, TRUE)) @@
    (2 :> SrcRel("image", FALSE, "blobC", TRUE, TRUE)) @@
    (3 :> SrcRel("image", FALSE, "blobE", TRUE, TRUE))

\* Text style nodes of a shape, in document order.  kind "rPr" and
\* "endParaRPr" are style elements; kind "r" is a text run that has no
\* run-property element of its own.  fill: the node has a solidFill child;
\* clr: the colour that child names ("" for none).
StyleNode(kind, sz, fill) ==
    [kind |-> kind, sz |-> sz, fill |-> fill,
     clr |-> IF fill THEN "accent1" ELSE ""]

\* An element of the shape's subtree that carries relationship attributes
\* (attrs: their values in attribute order); root: it is the shape element
\* itself, which has no parent until the clone is inserted.
RefNode(root, attrs) == [root |-> root, attrs |-> attrs]

Shape(name, ph, xfrm, runs, nodes) ==
    [name |-> name, ph |-> ph, xfrm |-> xfrm, runs |-> runs, nodes |-> nodes]

XfrmA == <<100, 100, 200, 200>>
XfrmB == <<-3, 5, 1, 0>>
XfrmL == <<10, 20, 300, 40>>
XfrmM == <<11, 21, 301, 41>>

ShapeCatalogue ==
    { Shape("text", <<>>, XfrmA, <<StyleNode("rPr", 1800, TRUE)>>, <<>>),
      Shape("line", <<>>, XfrmB, <<>>, <<>>),
      Shape("pic", <<>>, XfrmA, <<>>, <<RefNode(FALSE, <<2>>)>>),
      Shape("picTwice", <<>>, XfrmA, <<>>,
            <<RefNode(FALSE, <<2>>), RefNode(FALSE, <<2>>)>>),
      Shape("picLegacy", <<>>, XfrmA, <<>>,
            <<RefNode(FALSE, <<3>>), RefNode(FALSE, <<3>>)>>),
      Shape("picLinked", <<>>, XfrmB, <<>>, <<RefNode(FALSE, <<2, 6>>)>>),
      Shape("picBroken", <<>>, XfrmA, <<>>, <<RefNode(FALSE, <<7>>)>>),
      Shape("link", <<>>, XfrmA, <<StyleNode("rPr", 0, FALSE)>>,
            <<RefNode(FALSE, <<4>>), RefNode(FALSE, <<4>>)>>),
      Shape("tagged", <<>>, XfrmA, <<>>,
            <<RefNode(FALSE, <<5>>), RefNode(FALSE, <<2>>),
              RefNode(FALSE, <<5>>)>>),
      Shape("taggedRoot", <<>>, XfrmA, <<>>, <<RefNode(TRUE, <<5>>)>>),
      Shape("stale", <<>>, XfrmA, <<>>,
            <<RefNode(FALSE, <<9>>), RefNode(FALSE, <<9>>)>>),
      Shape("titleInherit", <<"title", 0>>, <<>>,
            <<StyleNode("rPr", 0, FALSE), StyleNode("endParaRPr", 0, FALSE)>>,
            <<>>),
      Shape("titleBare", <<"title", 0>>, XfrmA, <<StyleNode("r", 0, FALSE)>>,
            <<>>),
      Shape("titleOwn", <<"ctrTitle", 0>>, XfrmB,
            <<StyleNode("rPr", 4400, TRUE), StyleNode("endParaRPr", 0, FALSE)>>,
            <<>>),
      Shape("body", <<"body", 1>>, <<>>, <<StyleNode("rPr", 0, FALSE)>>, <<>>) }

\* Placeholders and decoration of the source layouts and masters.
MasterTitle == Shape("mTitle", <<"title", 0>>, XfrmM,
                     <<StyleNode("rPr", 4000, FALSE)>>, <<>>)
MasterBody == Shape("mBody", <<"body", 1>>, XfrmM, <<>>, <<>>)
LayoutTitle == Shape("lTitle", <<"title", 0>>, XfrmL,
                     <<StyleNode("endParaRPr", 3600, FALSE)>>, <<>>)
LayoutTitleEmpty == Shape("lTitle", <<"title", 0>>, <<>>, <<>>, <<>>)
LayoutArt == Shape("lArt", <<>>, XfrmA, <<>>, <<RefNode(FALSE, <<2>>)>>)
LayoutLogo == Shape("lLogo", <<>>, XfrmB, <<StyleNode("rPr", 1200, TRUE)>>,
                    <<>>)

Background(fill, rid) == <<[fill |-> fill, rid |-> rid]>>

Master(shapes, bg) == [shapes |-> shapes, bg |-> bg]
Layout(shapes, bg, master) ==
    [shapes |-> shapes, bg |-> bg, rels |-> LayoutRels, master |-> master]

LayoutPlain ==
    Layout(<<LayoutTitle>>, <<>>,
           Master(<<MasterTitle, MasterBody>>, Background("solid", 0)))
LayoutDecor ==
    Layout(<<LayoutArt, LayoutTitleEmpty, LayoutLogo>>, Background("blip", 3),
           Master(<<MasterTitle>>, <<>>))
LayoutBare == Layout(<<>>, <<>>, Master(<<>>, <<>>))

LayoutCatalogue == { LayoutPlain, LayoutDecor, LayoutBare }

SlideBackgrounds == { <<>>, Background("solid", 0), Background("blip", 2) }

SrcSlide(shapes, bg, layout) ==
    [shapes |-> shapes, bg |-> bg, rels |-> SlideRels, slide_layout |-> layout]

ShapeNamed(n) == CHOOSE s \in ShapeCatalogue : s.name = n

\* Shape lists of a source slide: none, one catalogue shape, or a pair of
\* shapes that interact through the destination's relationship table.
ShapeLists ==
    { <<>> } \cup { <<s>> : s \in ShapeCatalogue } \cup
    { <<ShapeNamed("pic"), ShapeNamed("picTwice")>>,
      <<ShapeNamed("tagged"), ShapeNamed("pic")>>,
      <<ShapeNamed("text"), ShapeNamed("body")>> }

\* The slides a source deck may hold.
SlideCatalogue ==
    { SrcSlide(sh, <<>>, LayoutPlain) : sh \in ShapeLists } \cup
    { SrcSlide(<<>>, bg, ly) :
        bg \in SlideBackgrounds, ly \in LayoutCatalogue } \cup
    { SrcSlide(<<ShapeNamed("pic")>>, Background("blip", 2), ly) :
        ly \in LayoutCatalogue } \cup
    { SrcSlide(<<ShapeNamed(n)>>, <<>>, ly) :
        n \in {"titleInherit", "titleBare", "titleOwn", "body"},
        ly \in {LayoutDecor, LayoutBare} }

\* Slide sizes of the decks (width, height).  The destination is <<4, 4>>.
TargetDims == <<4, 4>>
DeckDims == { <<4, 4>>, <<2, 2>>, <<8, 3>> }

\* ------------------------------------------- destination relationships
\* A relationship of the destination slide part.  pkg: the package that
\* owns the target part ("dest" for a part added to the destination,
\* "source" for a part of the source package related to as it is).
DestRel(type, ext, target, pkg) ==
    [reltype |-> type, is_external |-> ext, target |-> target, pkg |-> pkg]

\* The table of a slide just created by add_slide: rId1 is its layout.
NewSlideRels == (1 :> DestRel("slideLayout", FALSE, "hostLayout", "dest"))

\* The lowest unused id of a table.
NextRId(rels) ==
    CHOOSE n \in 1..(Cardinality(DOMAIN rels) + 1) :
        /\ n \notin DOMAIN rels
        /\ \A m \in 1..(n - 1) : m \in DOMAIN rels

\* rels.get_or_add / get_or_add_ext_rel: the id of the entry with this
\* type and target when there is one, else a new entry.
GetOrAdd(rels, rec) ==
    LET same == { r \in DOMAIN rels : rels[r] = rec }
    IN  IF same # {}
        THEN [rels |-> rels, rId |-> CHOOSE r \in same : \A q \in same : r <= q]
        ELSE [rels |-> rels @@ (NextRId(rels) :> rec), rId |-> NextRId(rels)]

\* part.get_or_add_image_part: the package's image part with this blob
\* (added when new), related to from the slide.
GetOrAddImagePart(images, rels, blob) ==
    LET got == GetOrAdd(rels, DestRel("image", FALSE, blob, "dest"))
    IN  [images |-> images \cup {blob}, rels |-> got.rels, rId |-> got.rId]

\* ------------------------------------------------ relationship remapping
\* The state one slide copy threads through its shapes: the destination
\* shape tree, the destination slide's table, the destination package's
\* image parts, the id translation cache, the remaps done so far (part,
\* old id, resulting attribute value, whether the destination grew),
\* whether an exception escaped, and the shapes of the source container as
\* the pass leaves them.
CopyCtx(shapes, rels, images) ==
    [shapes |-> shapes, rels |-> rels, images |-> images,
     rel_map |-> <<>>, trace |-> <<>>, raised |-> FALSE, kept |-> <<>>]

Traced(cx, next, part, old, new, act) ==
    [next EXCEPT !.trace = Append(cx.trace,
        [part |-> part, old |-> old, new |-> new, act |-> act,
         grew |-> (next.rels # cx.rels \/ next.images # cx.images)])]

\* Variant of RelKey: the cache is keyed on the id alone.
RelKeyIdOnly(part, old) == <<"", old>>

\* rel_key: the source part's name and the old id.
RelKey(part, old) == <<part, old>>

\* Variant of CacheHit: the hit is noticed, the attribute is not rewritten.
CacheHitKeepsOld(cx, part, old) ==
    [cx |-> Traced(cx, cx, part, old, old, "set"), value |-> old,
     act |-> "set"]

\* The use of a cached translation.
CacheHit(cx, part, old) ==
    [cx |-> Traced(cx, cx, part, old, cx.rel_map[RelKey(part, old)], "set"),
     value |-> cx.rel_map[RelKey(part, old)], act |-> "set"]

\* One relationship attribute of a clone: the body of the attribute loop.
RemapAttr(cx, part, srcRels, old) ==
    LET key == RelKey(part, old)
    IN  IF key \in DOMAIN cx.rel_map THEN CacheHit(cx, part, old)
        ELSE IF old \notin DOMAIN srcRels
        THEN [cx |-> Traced(cx, cx, part, old, old, "keep"),
              value |-> old, act |-> "keep"]
        ELSE LET rel == srcRels[old] IN
        IF rel.reltype = "tags"
        THEN [cx |-> Traced(cx, cx, part, old, old, "drop"),
              value |-> old, act |-> "drop"]
        ELSE IF rel.reltype = "image" /\ rel.imgOk
        THEN LET got == GetOrAddImagePart(cx.images, cx.rels, rel.target)
                 nx == [cx EXCEPT !.images = got.images, !.rels = got.rels,
                                  !.rel_map = @ @@ (key :> got.rId)]
             IN  [cx |-> Traced(cx, nx, part, old, got.rId, "set"),
                  value |-> got.rId, act |-> "set"]
        ELSE IF ~rel.rawOk
        THEN [cx |-> [cx EXCEPT !.raised = TRUE], value |-> old,
              act |-> "raise"]
        ELSE LET got == GetOrAdd(cx.rels,
                            DestRel(rel.reltype, rel.is_external, rel.target,
                                    IF rel.is_external THEN "none" ELSE "source"))
                 nx == [cx EXCEPT !.rels = got.rels,
                                  !.rel_map = @ @@ (key :> got.rId)]
             IN  [cx |-> Traced(cx, nx, part, old, got.rId, "set"),
                  value |-> got.rId, act |-> "set"]

\* The attributes of one element from the i-th on; a tags reference ends
\* the element's attribute loop and marks the element for removal.
RECURSIVE RemapNodeFrom(_, _, _, _, _)
RemapNodeFrom(cx, part, srcRels, node, i) ==
    IF i > Len(node.attrs) \/ cx.raised
    THEN [cx |-> cx, node |-> node, drop |-> FALSE]
    ELSE LET r == RemapAttr(cx, part, srcRels, node.attrs[i]) IN
         IF r.act = "drop"
         THEN [cx |-> r.cx, node |-> node, drop |-> TRUE]
         ELSE RemapNodeFrom(r.cx, part, srcRels,
                  [node EXCEPT !.attrs[i] = r.value], i + 1)

\* The walk over the elements of a clone: the elements as rewritten, and
\* for each whether it was marked for removal.
RECURSIVE RemapWalk(_, _, _, _, _, _)
RemapWalk(cx, part, srcRels, todo, done, marks) ==
    IF todo = <<>> \/ cx.raised
    THEN [cx |-> cx, nodes |-> done \o todo, marks |-> marks]
    ELSE LET r == RemapNodeFrom(cx, part, srcRels, Head(todo), 1)
         IN  RemapWalk(r.cx, part, srcRels, Tail(todo),
                       Append(done, r.node), Append(marks, r.drop))

\* The removal pass: a marked element is removed from its parent; the
\* clone's own root has no parent yet and stays.
RECURSIVE RemoveMarked(_, _)
RemoveMarked(nodes, marks) ==
    IF nodes = <<>> \/ marks = <<>> THEN nodes
    ELSE IF Head(marks) /\ ~Head(nodes).root
         THEN RemoveMarked(Tail(nodes), Tail(marks))
         ELSE <<Head(nodes)>> \o RemoveMarked(Tail(nodes), Tail(marks))

\* _remap_relationship_ids on one clone.
RemapRelationshipIds(cx, part, srcRels, shape) ==
    LET w == RemapWalk(cx, part, srcRels, shape.nodes, <<>>, <<>>)
    IN  [cx |-> w.cx,
         shape |-> [shape EXCEPT !.nodes = RemoveMarked(w.nodes, w.marks)]]

\* --------------------------------------------------- placeholder helpers
IsPlaceholder(shape) == shape.ph # <<>>

\* _get_placeholder_info: the (type, idx) of the shape's <p:ph>, else none.
\* An idx of 0 stands for "0" and for an absent idx alike.
GetPlaceholderInfo(shape) == shape.ph

IsTitleClass(ph) == ph # <<>> /\ ph[1] \in {"title", "ctrTitle"}

\* _find_placeholder_shape: the first placeholder of the container with
\* this type and idx, as a tuple of zero or one shape.
RECURSIVE FindPlaceholderShape(_, _)
FindPlaceholderShape(shapes, ph) ==
    IF shapes = <<>> THEN <<>>
    ELSE IF IsPlaceholder(Head(shapes)) /\ Head(shapes).ph = ph
         THEN <<Head(shapes)>>
         ELSE FindPlaceholderShape(Tail(shapes), ph)

\* _materialize_placeholder_geometry: a clone without a transform takes the
\* transform of the layout's matching placeholder, or of the master's when
\* the layout has no matching placeholder.
MaterializePlaceholderGeometry(shape, slide) ==
    IF shape.xfrm # <<>> THEN shape
    ELSE LET inLayout == FindPlaceholderShape(slide.slide_layout.shapes,
                                              shape.ph)
             found == IF inLayout # <<>> THEN inLayout
                      ELSE FindPlaceholderShape(
                               slide.slide_layout.master.shapes, shape.ph)
         IN  IF found = <<>> THEN shape
             ELSE [shape EXCEPT !.xfrm = found[1].xfrm]

\* _find_first_text_size: the first sized rPr, else the first sized
\* endParaRPr, else none (0).
RECURSIVE FirstSized(_, _)
FirstSized(runs, kind) ==
    IF runs = <<>> THEN 0
    ELSE IF Head(runs).kind = kind /\ Head(runs).sz # 0 THEN Head(runs).sz
         ELSE FirstSized(Tail(runs), kind)

FindFirstTextSize(shape) ==
    IF FirstSized(shape.runs, "rPr") # 0 THEN FirstSized(shape.runs, "rPr")
    ELSE FirstSized(shape.runs, "endParaRPr")

\* Variant of ResolveEffectiveTitleSize: the search ends at the layout's
\* matching placeholder when there is one, sized or not.
ResolveStopsAtLayout(shape, slide) ==
    LET layoutPh == FindPlaceholderShape(slide.slide_layout.shapes, shape.ph)
        masterPh == FindPlaceholderShape(slide.slide_layout.master.shapes,
                                         shape.ph)
    IN  IF FindFirstTextSize(shape) # 0 THEN FindFirstTextSize(shape)
        ELSE IF layoutPh # <<>> THEN FindFirstTextSize(layoutPh[1])
        ELSE IF masterPh # <<>> THEN FindFirstTextSize(masterPh[1])
        ELSE 0

\* _resolve_effective_title_size: the source shape, then the layout's
\* matching placeholder, then the master's.
ResolveEffectiveTitleSize(shape, slide) ==
    LET layoutPh == FindPlaceholderShape(slide.slide_layout.shapes, shape.ph)
        masterPh == FindPlaceholderShape(slide.slide_layout.master.shapes,
                                         shape.ph)
    IN  IF FindFirstTextSize(shape) # 0 THEN FindFirstTextSize(shape)
        ELSE IF layoutPh # <<>> /\ FindFirstTextSize(layoutPh[1]) # 0
        THEN FindFirstTextSize(layoutPh[1])
        ELSE IF masterPh # <<>> THEN FindFirstTextSize(masterPh[1])
        ELSE 0

\* _strip_placeholder_binding: the <p:ph> element is removed.
StripPlaceholderBinding(shape) == [shape EXCEPT !.ph = <<>>]

\* _apply_fallback_title_style: every rPr / endParaRPr element of the
\* clone gets a size when it has none and a solid fill when it has none.
\* Variant of StyleOneNode: the theme colour fill replaces any fill.
StyleOneNodeRecolours(node, target) ==
    IF node.kind \in {"rPr", "endParaRPr"}
    THEN [node EXCEPT !.sz = IF @ = 0 THEN target ELSE @, !.fill = TRUE,
                      !.clr = "tx1"]
    ELSE node

StyleOneNode(node, target) ==
    IF node.kind \in {"rPr", "endParaRPr"}
    THEN [node EXCEPT !.sz = IF @ = 0 THEN target ELSE @, !.fill = TRUE,
                      !.clr = IF node.fill THEN @ ELSE "tx1"]
    ELSE node

ApplyFallbackTitleStyle(shape, size) ==
    LET target == IF size # 0 THEN size ELSE DefaultTitleSize
    IN  [shape EXCEPT !.runs =
            [i \in 1..Len(shape.runs) |-> StyleOneNode(shape.runs[i], target)]]

\* ------------------------------------------------------- shape transplant
\* The clone of one shape before its relationship ids are remapped.
PrepareClone(shape, slide, strip) ==
    IF ~strip THEN shape
    ELSE IF IsTitleClass(GetPlaceholderInfo(shape))
    THEN ApplyFallbackTitleStyle(
             StripPlaceholderBinding(
                 MaterializePlaceholderGeometry(shape, slide)),
             ResolveEffectiveTitleSize(shape, slide))
    ELSE StripPlaceholderBinding(shape)

\* Variant of DeepCopy: the element itself is taken; inserting it into the
\* destination tree moves it out of the tree it was in.
TakeElement(el) == [clone |-> el, left |-> <<>>]

\* deepcopy(element): the copy that is edited and inserted, and what the
\* source tree holds at the element's place afterwards.
DeepCopy(el) == [clone |-> el, left |-> <<el>>]

\* Variant of CopyOneShape: the clone is inserted at the start of the shape
\* tree, below what is there.
CopyOneShapeBelow(cx, shape, part, srcRels, slide, strip) ==
    LET r == RemapRelationshipIds(cx, part, srcRels,
                                  PrepareClone(DeepCopy(shape).clone, slide,
                                               strip))
    IN  IF r.cx.raised
        THEN [r.cx EXCEPT !.kept = @ \o DeepCopy(shape).left]
        ELSE [r.cx EXCEPT !.kept = @ \o DeepCopy(shape).left,
                          !.shapes = <<r.shape>> \o @]

\* The loop body of _copy_shapes_from_container for one shape that is not
\* skipped: clone, prepare, remap, insert at the end of the shape tree.
CopyOneShape(cx, shape, part, srcRels, slide, strip) ==
    LET r == RemapRelationshipIds(cx, part, srcRels,
                                  PrepareClone(DeepCopy(shape).clone, slide,
                                               strip))
    IN  IF r.cx.raised
        THEN [r.cx EXCEPT !.kept = @ \o DeepCopy(shape).left]
        ELSE [r.cx EXCEPT !.kept = @ \o DeepCopy(shape).left,
                          !.shapes = Append(@, r.shape)]

\* _copy_shapes_from_container.
RECURSIVE CopyShapesFromContainer(_, _, _, _, _, _, _)
CopyShapesFromContainer(cx, shapes, part, srcRels, slide, strip, skip) ==
    IF shapes = <<>> THEN cx
    ELSE IF cx.raised THEN [cx EXCEPT !.kept = @ \o shapes]
    ELSE IF skip /\ IsPlaceholder(Head(shapes))
    THEN CopyShapesFromContainer([cx EXCEPT !.kept = Append(@, Head(shapes))],
                                 Tail(shapes), part, srcRels, slide,
                                 strip, skip)
    ELSE CopyShapesFromContainer(
             CopyOneShape(cx, Head(shapes), part, srcRels, slide, strip),
             Tail(shapes), part, srcRels, slide, strip, skip)

\* ------------------------------------------------------------- background
\* Variant of EffectiveBackground: the master's background comes first.
EffectiveBackgroundMasterFirst(slide) ==
    IF slide.slide_layout.master.bg # <<>> THEN slide.slide_layout.master.bg
    ELSE IF slide.slide_layout.bg # <<>> THEN slide.slide_layout.bg
    ELSE slide.bg

\* The effective source background: the slide's, else its layout's, else
\* its master's.
EffectiveBackground(slide) ==
    IF slide.bg # <<>> THEN slide.bg
    ELSE IF slide.slide_layout.bg # <<>> THEN slide.slide_layout.bg
    ELSE slide.slide_layout.master.bg

\* The destination's background after the background step: a deep copy of
\* the effective one, else what it was.
InstalledBackground(destBg, slide) ==
    IF EffectiveBackground(slide) # <<>>
    THEN <<DeepCopy(EffectiveBackground(slide)[1]).clone>>
    ELSE destBg

\* The source slide, its layout and its master after the background step:
\* the part that holds the effective background keeps what deepcopy left.
SourceAfterBackground(slide) ==
    IF slide.bg # <<>>
    THEN [slide EXCEPT !.bg = DeepCopy(@[1]).left]
    ELSE IF slide.slide_layout.bg # <<>>
    THEN [slide EXCEPT !.slide_layout.bg = DeepCopy(@[1]).left]
    ELSE IF slide.slide_layout.master.bg # <<>>
    THEN [slide EXCEPT !.slide_layout.master.bg = DeepCopy(@[1]).left]
    ELSE slide

\* ---------------------------------------------------------- normalization
\* Variant of ScaleXfrm: width and height are not kept at 1 or more.
ScaleXfrmUnclamped(x, src, dst) ==
    << ScaleInt(x[1], dst[1], src[1]), ScaleInt(x[2], dst[2], src[2]),
       ScaleInt(x[3], dst[1], src[1]), ScaleInt(x[4], dst[2], src[2]) >>

ScaleXfrm(x, src, dst) ==
    << ScaleInt(x[1], dst[1], src[1]), ScaleInt(x[2], dst[2], src[2]),
       Max(1, ScaleInt(x[3], dst[1], src[1])),
       Max(1, ScaleInt(x[4], dst[2], src[2])) >>

\* The loop over the slide's shapes; a shape without a transform has
\* left = None, and None * scale raises.
RECURSIVE ScaleShapes(_, _, _, _)
ScaleShapes(todo, done, src, dst) ==
    IF todo = <<>> THEN [shapes |-> done, raised |-> FALSE]
    ELSE IF Head(todo).xfrm = <<>>
    THEN [shapes |-> done \o todo, raised |-> TRUE]
    ELSE ScaleShapes(Tail(todo),
             Append(done, [Head(todo) EXCEPT !.xfrm = ScaleXfrm(@, src, dst)]),
             src, dst)

\* Variant of NormalizeSlideLayout: no early return for equal sizes.
NormalizeAlwaysScales(shapes, src, dst) ==
    [adjusted |-> TRUE,
     shapes |-> ScaleShapes(shapes, <<>>, src, dst).shapes,
     raised |-> ScaleShapes(shapes, <<>>, src, dst).raised]

\* _normalize_slide_layout.
NormalizeSlideLayout(shapes, src, dst) ==
    IF src[1] = dst[1] /\ src[2] = dst[2]
    THEN [adjusted |-> FALSE, shapes |-> shapes, raised |-> FALSE]
    ELSE [adjusted |-> TRUE,
          shapes |-> ScaleShapes(shapes, <<>>, src, dst).shapes,
          raised |-> ScaleShapes(shapes, <<>>, src, dst).raised]

\* ------------------------------------------------------- layout selection
\* A layout of the destination deck: whether its lower-cased name holds
\* "blank" or its other-locale form, whether it holds the title-slide
\* name, and for each of its shapes whether it is a placeholder and
\* whether it has non-blank text.
HostLayout(blank, titleSlide, shapes) ==
    [blank |-> blank, titleSlide |-> titleSlide, shapes |-> shapes]
HostShape(ph, text) == [ph |-> ph, text |-> text]

CountWhere(shapes, field) ==
    Cardinality({ i \in 1..Len(shapes) : shapes[i][field] })

\* Variant of LayoutScore: the title-slide bonus only for a name that has
\* no blank bonus.
LayoutScoreOneBonus(layout) ==
    CountWhere(layout.shapes, "ph") * PlaceholderWeight
    + CountWhere(layout.shapes, "text") * TextWeight
    + Len(layout.shapes)
    + (IF layout.blank THEN -BlankBonus
       ELSE IF layout.titleSlide THEN -TitleSlideBonus ELSE 0)

LayoutScore(layout) ==
    CountWhere(layout.shapes, "ph") * PlaceholderWeight
    + CountWhere(layout.shapes, "text") * TextWeight
    + Len(layout.shapes)
    + (IF layout.blank THEN -BlankBonus ELSE 0)
    + (IF layout.titleSlide THEN -TitleSlideBonus ELSE 0)

\* Variant of PickStep: a layout of the best score so far replaces the best.
PickStepOnTie(best, layouts, i) ==
    IF best.unset \/ LayoutScore(layouts[i]) <= best.score
    THEN [index |-> i, score |-> LayoutScore(layouts[i]), unset |-> FALSE]
    ELSE best

\* One turn of the loop of _pick_blank_layout: a layout of strictly lower
\* score replaces the best so far.  unset: best_score is still infinite.
PickStep(best, layouts, i) ==
    IF best.unset \/ LayoutScore(layouts[i]) < best.score
    THEN [index |-> i, score |-> LayoutScore(layouts[i]), unset |-> FALSE]
    ELSE best

RECURSIVE PickLoop(_, _, _)
PickLoop(best, layouts, i) ==
    IF i > Len(layouts) THEN best
    ELSE PickLoop(PickStep(best, layouts, i), layouts, i + 1)

\* _pick_blank_layout: the index of the layout the loop ends with; it
\* starts from the first layout and an infinite best score.
PickBlankLayout(layouts) ==
    PickLoop([index |-> 1, score |-> 0, unset |-> TRUE], layouts, 1).index

\* The layouts of the destination deck: a title-slide layout with two
\* placeholders, a layout with one captioned placeholder, one with a
\* placeholder and a text box.
HostLayouts ==
    << HostLayout(FALSE, TRUE,
                  <<HostShape(TRUE, FALSE), HostShape(TRUE, FALSE)>>),
       HostLayout(FALSE, FALSE, <<HostShape(TRUE, TRUE)>>),
       HostLayout(FALSE, FALSE,
                  <<HostShape(TRUE, FALSE), HostShape(FALSE, TRUE)>>) >>

\* Layouts of every name class with few shapes, and the layout lists of a
\* destination deck made of them; some differ and score the same.
HostLayoutKinds ==
    { HostLayout(b, t, sh) :
        b \in BOOLEAN, t \in BOOLEAN,
        sh \in { <<>>, <<HostShape(TRUE, FALSE)>>,
                 <<HostShape(FALSE, FALSE), HostShape(FALSE, FALSE)>>,
                 <<HostShape(FALSE, TRUE), HostShape(FALSE, TRUE)>> } }

HostLayoutLists ==
    UNION { [1..n -> HostLayoutKinds] : n \in 1..MaxLayouts }

\* The shapes add_slide gives a new slide: one placeholder per placeholder
\* of its layout.
RECURSIVE HostPlaceholders(_, _)
HostPlaceholders(shapes, n) ==
    IF shapes = <<>> THEN <<>>
    ELSE IF Head(shapes).ph
         THEN <<Shape("host", <<"body", n>>, <<>>, <<>>, <<>>)>>
              \o HostPlaceholders(Tail(shapes), n + 1)
         ELSE HostPlaceholders(Tail(shapes), n)

\* ------------------------------------------------------------------ state
\* pc            where merge_with_template stands ("failed": an exception
\*               left it, "done": it returned), or where the import of a
\*               deck stands ("import": received, "split": its chapters
\*               made, "saved": stored, "refused": answered with 400)
\* template_file the destination deck on disk: whether it opens, how many
\*               slides it holds, its layouts
\* num_sources   len(source_paths)
\* opened        the slide count of each source deck opened so far
\* template      the destination deck in memory: its slide list (src = 0
\*               for a slide it held before the merge, else the position
\*               of the source deck; idx the slide's position in its deck)
\*               and its package's image parts
\* blank_layout  the index of the host layout
\* source        the open source deck: its slide size and slide count
\* slide_no      how many slides of it the loop has taken
\* src_slide     the source slide being copied
\* dest_slide    the destination slide being filled
\* rel_map       the id translation cache of the slide copy
\* trace         the remaps the slide copy has done
\* report        the MergeReport
\* output        the output path: how often it was written, and the slide
\*               list last written to it
\* slides_text   the SlideText list of the deck a /ppt-import request sent
\* boundaries    what detect_chapter_boundaries returned for it
\* db            the import_jobs and chapter_assets tables of app/storage.py
\* library       the unified template library of app/storage.py: the ids of
\*               its rows, the ids whose payload is empty, the stored
\*               active id (0: no such setting) and the last id given
\* request       the HTTP request being served
\* response      the HTTP response to it (status 0: none yet)
VARIABLES pc, template_file, num_sources, opened, template, blank_layout,
          source, slide_no, src_slide, dest_slide, rel_map, trace, report,
          output, library, request, response, slides_text, boundaries, db

vars == << pc, template_file, num_sources, opened, template, blank_layout,
           source, slide_no, src_slide, dest_slide, rel_map, trace, report,
           output, library, request, response, slides_text, boundaries, db >>

\* What app/ppt_import.py and the practice library of app/storage.py hold.
intake == << slides_text, boundaries, db >>

\* What app/main.py and app/storage.py hold around a merge.
site == << library, request, response, intake >>

\* The locals of merge_with_template.
merge == << pc, template_file, num_sources, opened, template, blank_layout,
            source, slide_no, src_slide, dest_slide, rel_map, trace, report,
            output >>

TemplateFiles ==
    { [ok |-> o, pre |-> p, layouts |-> HostLayouts] :
        o \in BOOLEAN, p \in 0..MaxPre }

\* Values of the loop's locals while no slide is being copied.
IdleSrcSlide == SrcSlide(<<>>, <<>>, LayoutBare)
IdleDestSlide ==
    [shapes |-> <<>>, bg |-> <<>>, rels |-> NewSlideRels,
     showMasterSp |-> TRUE]

\* An upload field of a request.  given: the field is there and has a
\* file name; pptx: the name ends in ".pptx"; size: the payload's length;
\* file: the deck the payload is.
Upload(given, pptx, size, file) ==
    [given |-> given, pptx |-> pptx, size |-> size, file |-> file]
NoFile == [ok |-> FALSE, pre |-> 0, layouts |-> HostLayouts]
NoUpload == Upload(FALSE, FALSE, 0, NoFile)

\* A request: its operation, its template upload, for each source upload
\* whether its name ends in ".pptx", and the template id of its path.
Request(op, upload, sources, id) ==
    [op |-> op, template |-> upload, sources |-> sources, id |-> id]
NoRequest == Request("none", NoUpload, <<>>, 0)

\* A response: status, media type ("pptx": the presentation type), kind of
\* body ("PK": a zip package), the X-Merge-Imported-Slides and
\* X-Merge-Adjusted-Slides headers, X-Template-Source, and the template id
\* the handler worked on.
Reply(status) ==
    [status |-> status, media |-> "json", body |-> "json", imported |-> 0,
     adjusted |-> 0, source |-> "", id |-> 0]
NoReply == [Reply(0) EXCEPT !.media = "", !.body = ""]

EmptyLibrary == [ids |-> {}, blank |-> {}, active |-> 0, seq |-> 0]

\* The locals of merge_with_template at its entry.
InitLocals ==
    /\ opened = <<>>
    /\ template = [slides |-> <<>>, images |-> {}]
    /\ blank_layout = 0
    /\ source = [dims |-> TargetDims, n |-> 0]
    /\ slide_no = 0
    /\ src_slide = IdleSrcSlide
    /\ dest_slide = IdleDestSlide
    /\ rel_map = <<>>
    /\ trace = <<>>
    /\ report = [total_source_files |-> 0, total_source_slides |-> 0,
                 imported_slides |-> 0, layout_adjusted_slides |-> 0]
    /\ output = [saves |-> 0, slides |-> <<>>]

\* The practice library before any import: both tables empty.
EmptyDb == [jobs |-> <<>>, chapters |-> <<>>, job_seq |-> 0,
            chapter_seq |-> 0]

InitIntake ==
    /\ slides_text = <<>>
    /\ boundaries = <<>>
    /\ db = EmptyDb

\* merge_with_template called on its own: no request, an empty library.
Init ==
    /\ pc = "start"
    /\ template_file \in TemplateFiles
    /\ num_sources \in 0..MaxSources
    /\ InitLocals
    /\ InitIntake
    /\ library = EmptyLibrary
    /\ request = NoRequest
    /\ response = NoReply

\* The exception leaves merge_with_template: nothing after it runs.
Raise ==
    /\ pc' = "failed"
    /\ UNCHANGED << site, template_file, num_sources, opened, template,
                    blank_layout, source, slide_no, src_slide, dest_slide,
                    rel_map, trace, report, output >>

\* ----------------------------------------------------------------- actions
\* Presentation(template_path) on a file that is no package.
OpenTemplateFails ==
    /\ pc = "start"
    /\ ~template_file.ok
    /\ Raise

\* Opening the destination, picking the layout, creating the report.
OpenTemplate ==
    /\ pc = "start"
    /\ template_file.ok
    /\ template' = [slides |-> [i \in 1..template_file.pre |->
                                    [src |-> 0, idx |-> i]],
                    images |-> {}]
    /\ blank_layout' = PickBlankLayout(template_file.layouts)
    /\ report' = [total_source_files |-> num_sources,
                  total_source_slides |-> 0, imported_slides |-> 0,
                  layout_adjusted_slides |-> 0]
    /\ pc' = "loop"
    /\ UNCHANGED << site, template_file, num_sources, opened, source, slide_no,
                    src_slide, dest_slide, rel_map, trace, output >>

\* Presentation(source_path) on a file that is no package.
OpenSourceFails ==
    /\ pc = "loop"
    /\ slide_no = source.n
    /\ Len(opened) < num_sources
    /\ Raise

\* The next source deck is opened and its slides are counted.
OpenSource ==
    /\ pc = "loop"
    /\ slide_no = source.n
    /\ Len(opened) < num_sources
    /\ \E d \in DeckDims, n \in 0..MaxSlides :
          /\ source' = [dims |-> d, n |-> n]
          /\ opened' = Append(opened, n)
          /\ report' = [report EXCEPT !.total_source_slides = @ + n]
    /\ slide_no' = 0
    /\ UNCHANGED << site, pc, template_file, num_sources, template, blank_layout,
                    src_slide, dest_slide, rel_map, trace, output >>

\* What AddSlide does besides placing the new slide in the slide list.
AddSlideRest ==
    /\ pc = "loop"
    /\ slide_no < source.n
    /\ slide_no' = slide_no + 1
    /\ dest_slide' =
          [IdleDestSlide EXCEPT !.shapes =
              HostPlaceholders(template_file.layouts[blank_layout].shapes, 1)]
    /\ pc' = "clear"
    /\ UNCHANGED << site, template_file, num_sources, opened, blank_layout, source,
                    src_slide, rel_map, trace, report, output >>

\* Variant of AddSlide: the new slide becomes the first slide.
AddSlideAtFront ==
    /\ AddSlideRest
    /\ template' = [template EXCEPT !.slides =
                       <<[src |-> Len(opened), idx |-> slide_no + 1]>> \o @]

\* Variant of AddSlide: the new slide is placed right after the slides the
\* destination held before the merge.
AddSlideAfterOwn ==
    /\ AddSlideRest
    /\ template' = [template EXCEPT !.slides =
                       SubSeq(@, 1, template_file.pre)
                       \o <<[src |-> Len(opened), idx |-> slide_no + 1]>>
                       \o SubSeq(@, template_file.pre + 1, Len(@))]

\* template.slides.add_slide(blank_layout): a new last slide.
AddSlide ==
    /\ pc = "loop"
    /\ slide_no < source.n
    /\ slide_no' = slide_no + 1
    /\ template' = [template EXCEPT !.slides =
                       Append(@, [src |-> Len(opened), idx |-> slide_no + 1])]
    /\ dest_slide' =
          [IdleDestSlide EXCEPT !.shapes =
              HostPlaceholders(template_file.layouts[blank_layout].shapes, 1)]
    /\ pc' = "clear"
    /\ UNCHANGED << site, template_file, num_sources, opened, blank_layout, source,
                    src_slide, rel_map, trace, report, output >>

\* _clear_slide_shapes.
ClearSlideShapes ==
    /\ pc = "clear"
    /\ dest_slide' = [dest_slide EXCEPT !.shapes = <<>>]
    /\ pc' = "overlay"
    /\ UNCHANGED << site, template_file, num_sources, opened, template,
                    blank_layout, source, slide_no, src_slide, rel_map,
                    trace, report, output >>

\* Variant of DisableMasterOverlay: the setter's exception is not caught.
DisableMasterOverlayAborts ==
    /\ pc = "overlay"
    /\ \E setterRaises \in BOOLEAN :
          /\ dest_slide' = [dest_slide EXCEPT !.showMasterSp = FALSE]
          /\ pc' = IF setterRaises THEN "failed" ELSE "copy_layout"
    /\ UNCHANGED << site, template_file, num_sources, opened, template,
                    blank_layout, source, slide_no, src_slide, rel_map,
                    trace, report, output >>

\* _disable_master_overlay: the attributes are set; the property setter
\* may raise, which is swallowed, so either way control goes on.
DisableMasterOverlay ==
    /\ pc = "overlay"
    /\ \E setterRaises \in BOOLEAN :
          dest_slide' = [dest_slide EXCEPT !.showMasterSp = FALSE]
    /\ pc' = "copy_layout"
    /\ UNCHANGED << site, template_file, num_sources, opened, template,
                    blank_layout, source, slide_no, src_slide, rel_map,
                    trace, report, output >>

\* What a pass of _copy_shapes_from_container over the shapes of a part
\* ("layout" or "slide") of the source slide leaves behind.
AfterPass(cx, nextPc, slide, part) ==
    /\ src_slide' = IF part = "layout"
                    THEN [slide EXCEPT !.slide_layout.shapes = cx.kept]
                    ELSE [slide EXCEPT !.shapes = cx.kept]
    /\ dest_slide' = [dest_slide EXCEPT !.shapes = cx.shapes,
                                        !.rels = cx.rels]
    /\ template' = [template EXCEPT !.images = cx.images]
    /\ rel_map' = cx.rel_map
    /\ trace' = cx.trace
    /\ pc' = IF cx.raised THEN "failed" ELSE nextPc

\* _copy_slide_content, first pass: the source layout's shapes that are no
\* placeholders.  The source slide is read here for the first time.
CopyLayoutShapes ==
    /\ pc = "copy_layout"
    /\ \E s \in SlideCatalogue :
          AfterPass(
              CopyShapesFromContainer(
                  CopyCtx(dest_slide.shapes, dest_slide.rels,
                          template.images),
                  s.slide_layout.shapes, "layout", s.slide_layout.rels, s,
                  FALSE, TRUE),
              "copy_slide", s, "layout")
    /\ UNCHANGED << site, template_file, num_sources, opened, blank_layout, source,
                    slide_no, report, output >>

\* _copy_slide_content, second pass: the source slide's own shapes.
CopySlideShapes ==
    /\ pc = "copy_slide"
    /\ AfterPass(
          CopyShapesFromContainer(
              [CopyCtx(dest_slide.shapes, dest_slide.rels, template.images)
                  EXCEPT !.rel_map = rel_map, !.trace = trace],
              src_slide.shapes, "slide", src_slide.rels, src_slide,
              TRUE, FALSE),
          "copy_bg", src_slide, "slide")
    /\ UNCHANGED << site, template_file, num_sources, opened, blank_layout, source,
                    slide_no, report, output >>

\* _copy_slide_content, the background.
CopyBackground ==
    /\ pc = "copy_bg"
    /\ dest_slide' = [dest_slide EXCEPT
                         !.bg = InstalledBackground(@, src_slide)]
    /\ src_slide' = SourceAfterBackground(src_slide)
    /\ pc' = "normalize"
    /\ UNCHANGED << site, template_file, num_sources, opened, template,
                    blank_layout, source, slide_no, rel_map, trace, report,
                    output >>

\* Variant of Normalize: the slide is counted as adjusted whatever
\* _normalize_slide_layout returns.
NormalizeCountsEverySlide ==
    /\ pc = "normalize"
    /\ LET r == NormalizeSlideLayout(dest_slide.shapes, source.dims,
                                     TargetDims)
       IN  /\ dest_slide' = [dest_slide EXCEPT !.shapes = r.shapes]
           /\ pc' = IF r.raised THEN "failed" ELSE "count"
           /\ report' = IF ~r.raised
                        THEN [report EXCEPT !.layout_adjusted_slides = @ + 1]
                        ELSE report
    /\ UNCHANGED << site, template_file, num_sources, opened, template,
                    blank_layout, source, slide_no, src_slide, rel_map,
                    trace, output >>

\* _normalize_slide_layout and the count of adjusted slides.
Normalize ==
    /\ pc = "normalize"
    /\ LET r == NormalizeSlideLayout(dest_slide.shapes, source.dims,
                                     TargetDims)
       IN  /\ dest_slide' = [dest_slide EXCEPT !.shapes = r.shapes]
           /\ pc' = IF r.raised THEN "failed" ELSE "count"
           /\ report' = IF r.adjusted /\ ~r.raised
                        THEN [report EXCEPT !.layout_adjusted_slides = @ + 1]
                        ELSE report
    /\ UNCHANGED << site, template_file, num_sources, opened, template,
                    blank_layout, source, slide_no, src_slide, rel_map,
                    trace, output >>

\* What CountSlide does to the loop's locals.
CountSlideRest ==
    /\ pc = "count"
    /\ src_slide' = IdleSrcSlide
    /\ dest_slide' = IdleDestSlide
    /\ rel_map' = <<>>
    /\ trace' = <<>>
    /\ pc' = "loop"
    /\ UNCHANGED << site, template_file, num_sources, opened, template,
                    blank_layout, source, slide_no >>

\* Variant of CountSlide: a slide that received no shape is not counted.
CountSlideSkipsEmpty ==
    /\ CountSlideRest
    /\ report' = IF dest_slide.shapes = <<>> THEN report
                 ELSE [report EXCEPT !.imported_slides = @ + 1]
    /\ UNCHANGED output

\* Variant of CountSlide: the save sits inside the slide loop.
CountSlideAndSave ==
    /\ CountSlideRest
    /\ report' = [report EXCEPT !.imported_slides = @ + 1]
    /\ output' = [saves |-> output.saves + 1, slides |-> template.slides]

\* report.imported_slides += 1; the loop's locals are dead until the next
\* slide rebinds them.
CountSlide ==
    /\ pc = "count"
    /\ report' = [report EXCEPT !.imported_slides = @ + 1]
    /\ src_slide' = IdleSrcSlide
    /\ dest_slide' = IdleDestSlide
    /\ rel_map' = <<>>
    /\ trace' = <<>>
    /\ pc' = "loop"
    /\ UNCHANGED << site, template_file, num_sources, opened, template,
                    blank_layout, source, slide_no, output >>

\* template.save(output_path) and the return.
Save ==
    /\ pc = "loop"
    /\ slide_no = source.n
    /\ Len(opened) = num_sources
    /\ output' = [saves |-> output.saves + 1, slides |-> template.slides]
    /\ pc' = "done"
    /\ UNCHANGED << site, template_file, num_sources, opened, template,
                    blank_layout, source, slide_no, src_slide, dest_slide,
                    rel_map, trace, report >>

Next ==
    \/ OpenTemplateFails
    \/ OpenTemplate
    \/ OpenSourceFails
    \/ OpenSource
    \/ AddSlide
    \/ ClearSlideShapes
    \/ DisableMasterOverlay
    \/ CopyLayoutShapes
    \/ CopySlideShapes
    \/ CopyBackground
    \/ Normalize
    \/ CountSlide
    \/ Save

Spec == Init /\ [][Next]_vars

\* ------------------------------------------- layout selection on its own
\* merge_with_template on a destination deck with any list of layouts and
\* no source deck: the layout is picked, the deck is saved.
InitPick ==
    /\ pc = "start"
    /\ library = EmptyLibrary
    /\ request = NoRequest
    /\ response = NoReply
    /\ template_file \in { [ok |-> TRUE, pre |-> 0, layouts |-> ls] :
                              ls \in HostLayoutLists }
    /\ num_sources = 0
    /\ InitLocals
    /\ InitIntake

NextPick == OpenTemplate \/ Save

SpecPick == InitPick /\ [][NextPick]_vars

\* ------------------------------------------ the unified template library
\* ORDER BY id DESC LIMIT 1: the highest id of the table, 0 for no row.
LatestId(ids) ==
    IF ids = {} THEN 0 ELSE CHOOSE i \in ids : \A j \in ids : j <= i

\* save_unified_template: a new row gets the next id (AUTOINCREMENT: no
\* id is given twice) and becomes the active template.
SaveUnifiedTemplate(lib, empty) ==
    [ids |-> lib.ids \cup {lib.seq + 1},
     blank |-> IF empty THEN lib.blank \cup {lib.seq + 1} ELSE lib.blank,
     active |-> lib.seq + 1,
     seq |-> lib.seq + 1]

\* set_active_unified_template: None (found = FALSE) for an unknown id.
SetActiveUnifiedTemplate(lib, id) ==
    IF id \notin lib.ids THEN [lib |-> lib, found |-> FALSE]
    ELSE [lib |-> [lib EXCEPT !.active = id], found |-> TRUE]

\* Variant of DeleteUnifiedTemplate: the stored active id is left alone.
DeleteKeepsActiveId(lib, id) ==
    IF id \notin lib.ids THEN [lib |-> lib, found |-> FALSE]
    ELSE [lib |-> [lib EXCEPT !.ids = @ \ {id}, !.blank = @ \ {id}],
          found |-> TRUE]

\* delete_unified_template: the row goes; the active id becomes the latest
\* remaining id, or the setting is deleted when no row remains.
DeleteUnifiedTemplate(lib, id) ==
    IF id \notin lib.ids THEN [lib |-> lib, found |-> FALSE]
    ELSE [lib |-> [lib EXCEPT !.ids = @ \ {id}, !.blank = @ \ {id},
                              !.active = LatestId(lib.ids \ {id})],
          found |-> TRUE]

\* get_active_unified_template_blob: the row of the stored active id; when
\* there is none, the latest row, which then becomes the active one; id 0
\* stands for None.
GetActiveUnifiedTemplateBlob(lib) ==
    IF lib.active # 0 /\ lib.active \in lib.ids
    THEN [lib |-> lib, id |-> lib.active]
    ELSE IF lib.ids # {}
    THEN [lib |-> [lib EXCEPT !.active = LatestId(lib.ids)],
          id |-> LatestId(lib.ids)]
    ELSE [lib |-> lib, id |-> 0]

\* The deck a library row holds.
LibraryFile(id) == [ok |-> TRUE, pre |-> 0, layouts |-> HostLayouts]

\* _resolve_template_path.  status 400: HTTPException(400); status 0: it
\* returned the path of the written file and its source.
ResolveTemplatePath(upload, lib) ==
    LET refused == [status |-> 400, source |-> "", id |-> 0, file |-> NoFile,
                    lib |-> lib]
        got == GetActiveUnifiedTemplateBlob(lib)
    IN  IF upload.given
        THEN IF ~upload.pptx THEN refused
             ELSE IF upload.size <= 0 THEN refused
             ELSE [status |-> 0, source |-> "upload", id |-> 0,
                   file |-> upload.file, lib |-> lib]
        ELSE IF got.id = 0 THEN [refused EXCEPT !.lib = got.lib]
        ELSE IF got.id \in got.lib.blank THEN [refused EXCEPT !.lib = got.lib]
        ELSE [status |-> 0, source |-> "unified_db", id |-> got.id,
              file |-> LibraryFile(got.id), lib |-> got.lib]

\* The template uploads a request may carry: none, one with another file
\* name, an empty one, and a deck.
TemplateUploads(files) ==
    { NoUpload, Upload(TRUE, FALSE, 1, NoFile), Upload(TRUE, TRUE, 0, NoFile) }
    \cup { Upload(TRUE, TRUE, 1, f) : f \in files }

\* POST /api/practice-library/unified-template.
ApiUploadUnifiedTemplate ==
    /\ pc = "idle"
    /\ \E up \in TemplateUploads({LibraryFile(0)}) \ {NoUpload} :
          /\ request' = Request("upload", up, <<>>, 0)
          /\ IF ~up.pptx \/ up.size = 0
             THEN /\ response' = Reply(400)
                  /\ library' = library
             ELSE /\ library.seq < MaxTemplates
                  /\ library' = SaveUnifiedTemplate(library, FALSE)
                  /\ response' = [Reply(200) EXCEPT !.id = library.seq + 1]
    /\ UNCHANGED << merge, intake >>

\* POST /api/practice-library/unified-template/{template_id}/activate.
ApiActivateUnifiedTemplate ==
    /\ pc = "idle"
    /\ \E id \in 1..MaxTemplates :
          LET r == SetActiveUnifiedTemplate(library, id)
          IN  /\ request' = Request("activate", NoUpload, <<>>, id)
              /\ library' = r.lib
              /\ response' = IF r.found THEN [Reply(200) EXCEPT !.id = id]
                             ELSE Reply(404)
    /\ UNCHANGED << merge, intake >>

\* DELETE /api/practice-library/unified-template/{template_id}.
ApiDeleteUnifiedTemplate ==
    /\ pc = "idle"
    /\ \E id \in 1..MaxTemplates :
          LET r == DeleteUnifiedTemplate(library, id)
          IN  /\ request' = Request("delete", NoUpload, <<>>, id)
              /\ library' = r.lib
              /\ response' = IF r.found THEN [Reply(200) EXCEPT !.id = id]
                             ELSE Reply(404)
    /\ UNCHANGED << merge, intake >>

\* A call of _resolve_template_path, as POST /merge makes it.
ResolveTemplate ==
    /\ pc = "idle"
    /\ \E up \in TemplateUploads({LibraryFile(0)}) :
          LET r == ResolveTemplatePath(up, library)
          IN  /\ request' = Request("resolve", up, <<>>, 0)
              /\ library' = r.lib
              /\ response' = [Reply(r.status) EXCEPT !.source = r.source,
                                                     !.id = r.id]
    /\ UNCHANGED << merge, intake >>

\* The library behind its endpoints, and the template resolution on it.
InitLibrary ==
    /\ pc = "idle"
    /\ template_file = NoFile
    /\ num_sources = 0
    /\ InitLocals
    /\ InitIntake
    /\ library = EmptyLibrary
    /\ request = NoRequest
    /\ response = NoReply

NextLibrary ==
    \/ ApiUploadUnifiedTemplate
    \/ ApiActivateUnifiedTemplate
    \/ ApiDeleteUnifiedTemplate
    \/ ResolveTemplate

SpecLibrary == InitLibrary /\ [][NextLibrary]_vars

\* ------------------------------------------------------------ POST /merge
\* merge_ppt up to its call of merge_with_template: the checks of the
\* source uploads, the template resolution, the uploads written to disk.
MergePpt ==
    /\ pc = "request"
    /\ LET r == ResolveTemplatePath(request.template, library)
       IN  IF \/ request.sources = <<>>
              \/ \E i \in 1..Len(request.sources) : ~request.sources[i]
           THEN /\ response' = Reply(400)
                /\ pc' = "responded"
                /\ UNCHANGED << library, template_file, num_sources >>
           ELSE IF r.status = 400
           THEN /\ response' = Reply(400)
                /\ pc' = "responded"
                /\ library' = r.lib
                /\ UNCHANGED << template_file, num_sources >>
           ELSE /\ response' = [NoReply EXCEPT !.source = r.source,
                                              !.id = r.id]
                /\ pc' = "start"
                /\ library' = r.lib
                /\ template_file' = r.file
                /\ num_sources' = Len(request.sources)
    /\ UNCHANGED << intake, request, opened, template, blank_layout, source,
                    slide_no, src_slide, dest_slide, rel_map, trace, report,
                    output >>

\* merge_ppt after merge_with_template returned: the written file is read
\* and sent with the report in the headers.
MergeRespond ==
    /\ pc = "done"
    /\ response' = [Reply(200) EXCEPT
                       !.media = "pptx",
                       !.body = IF output.saves > 0 THEN "PK" ELSE "",
                       !.imported = report.imported_slides,
                       !.adjusted = report.layout_adjusted_slides,
                       !.source = response.source,
                       !.id = response.id]
    /\ pc' = "responded"
    /\ UNCHANGED << intake, library, request, template_file, num_sources,
                    opened, template, blank_layout, source, slide_no,
                    src_slide, dest_slide, rel_map, trace, report, output >>

\* An exception left merge_with_template and merge_ppt: the server answers
\* 500 with a plain text body.
MergeRaises ==
    /\ pc = "failed"
    /\ response' = [Reply(500) EXCEPT !.media = "text", !.body = "text"]
    /\ pc' = "responded"
    /\ UNCHANGED << intake, library, request, template_file, num_sources,
                    opened, template, blank_layout, source, slide_no,
                    src_slide, dest_slide, rel_map, trace, report, output >>

MergeRequests ==
    { Request("merge", up, srcs, 0) :
        up \in TemplateUploads(TemplateFiles),
        srcs \in UNION { [1..n -> BOOLEAN] : n \in 0..MaxSources } }

InitEndpoint ==
    /\ pc = "request"
    /\ request \in MergeRequests
    /\ library \in { EmptyLibrary, SaveUnifiedTemplate(EmptyLibrary, FALSE) }
    /\ response = NoReply
    /\ template_file = NoFile
    /\ num_sources = 0
    /\ InitLocals
    /\ InitIntake

NextEndpoint ==
    \/ MergePpt
    \/ Next
    \/ MergeRespond
    \/ MergeRaises

SpecEndpoint == InitEndpoint /\ [][NextEndpoint]_vars

\* ------------------------------------------------ import of a deck
\* A SlideText: its 0-based index, and whether _is_chapter_start takes the
\* slide's text for the start of a chapter.
SlideText(index, start) == [index |-> index, start |-> start]

\* The SlideText lists extract_all_text may give: one entry per slide.
SlideTexts ==
    UNION { { [i \in 1..n |-> SlideText(i - 1, starts[i])] :
                starts \in [1..n -> BOOLEAN] } : n \in 0..MaxTexts }

IsChapterStart(st) == st.start

\* _extract_chapter_title: a title taken from the slide's text, here the
\* slide it is taken from.
ExtractChapterTitle(st) == st.index

\* Variant of BoundaryStep: the chapter before a start is always closed.
BoundaryStepAlwaysCloses(acc, texts, i) ==
    IF IsChapterStart(texts[i + 1])
    THEN [chapters |-> Append(acc.chapters,
                              <<acc.current_start, i, acc.current_title>>),
          current_start |-> i,
          current_title |-> ExtractChapterTitle(texts[i + 1])]
    ELSE acc

\* One turn of the loop of detect_chapter_boundaries, for the slide of
\* 0-based index i.
BoundaryStep(acc, texts, i) ==
    IF IsChapterStart(texts[i + 1])
    THEN [chapters |-> IF i > acc.current_start
                       THEN Append(acc.chapters,
                                   <<acc.current_start, i, acc.current_title>>)
                       ELSE acc.chapters,
          current_start |-> i,
          current_title |-> ExtractChapterTitle(texts[i + 1])]
    ELSE acc

RECURSIVE BoundaryLoop(_, _, _)
BoundaryLoop(acc, texts, i) ==
    IF i >= Len(texts) THEN acc
    ELSE BoundaryLoop(BoundaryStep(acc, texts, i), texts, i + 1)

\* detect_chapter_boundaries: the (start, end, title) tuples.
DetectChapterBoundaries(texts) ==
    IF texts = <<>> THEN <<>>
    ELSE LET last == BoundaryLoop(
                         [chapters |-> <<>>, current_start |-> 0,
                          current_title |-> ExtractChapterTitle(texts[1])],
                         texts, 0)
         IN  Append(last.chapters,
                    <<last.current_start, Len(texts), last.current_title>>)

\* save_import_result: a job row with chapter_count = len(chapters) and
\* one chapter row per chapter with chapter_index 1, 2, ...; the ids are
\* AUTOINCREMENT ids.
SaveImportResult(d, n) ==
    [jobs |-> d.jobs @@ ((d.job_seq + 1) :> n),
     chapters |-> d.chapters @@
                  [c \in (d.chapter_seq + 1)..(d.chapter_seq + n) |->
                      [job_id |-> d.job_seq + 1,
                       chapter_index |-> c - d.chapter_seq]],
     job_seq |-> d.job_seq + 1,
     chapter_seq |-> d.chapter_seq + n]

\* The ids of the chapter rows of a job.
RowsOfJob(chapters, job_id) ==
    { c \in DOMAIN chapters : chapters[c].job_id = job_id }

\* Variant of RebuildJobZipAndCount: the count is stored, the rows keep
\* their chapter_index.
RebuildCountOnly(d, job_id) ==
    [d EXCEPT !.jobs[job_id] = Cardinality(RowsOfJob(d.chapters, job_id))]

\* _rebuild_job_zip_and_count: the job's rows in the order of
\* (chapter_index, id) get the indices 1..N, and N is stored as the job's
\* chapter_count.
RebuildJobZipAndCount(d, job_id) ==
    LET rows == RowsOfJob(d.chapters, job_id)
        Before(a, b) ==
            \/ d.chapters[a].chapter_index < d.chapters[b].chapter_index
            \/ /\ d.chapters[a].chapter_index = d.chapters[b].chapter_index
               /\ a <= b
    IN  [d EXCEPT
            !.chapters = [c \in DOMAIN d.chapters |->
                IF c \in rows
                THEN [d.chapters[c] EXCEPT !.chapter_index =
                         Cardinality({ b \in rows : Before(b, c) })]
                ELSE d.chapters[c]],
            !.jobs[job_id] = Cardinality(rows)]

\* delete_chapter: None (found = FALSE) for an unknown id; else the row is
\* deleted and the job rebuilt.
DeleteChapter(d, chapter_id) ==
    IF chapter_id \notin DOMAIN d.chapters THEN [db |-> d, found |-> FALSE]
    ELSE [db |-> RebuildJobZipAndCount(
                     [d EXCEPT !.chapters =
                         [c \in DOMAIN d.chapters \ {chapter_id} |->
                             d.chapters[c]]],
                     d.chapters[chapter_id].job_id),
          found |-> TRUE]

\* POST /ppt-import receives a deck.
ReceiveDeck ==
    /\ pc \in {"intake", "saved", "refused"}
    /\ db.job_seq < MaxJobs
    /\ slides_text' \in SlideTexts
    /\ boundaries' = <<>>
    /\ request' = Request("import", NoUpload, <<>>, 0)
    /\ response' = NoReply
    /\ pc' = "import"
    /\ UNCHANGED << db, library, template_file, num_sources, opened,
                    template, blank_layout, source, slide_no, src_slide,
                    dest_slide, rel_map, trace, report, output >>

\* process_ppt_import: the boundaries are detected and a chapter deck is
\* made for each; an exception of that work is answered with 400.
ProcessPptImport ==
    /\ pc = "import"
    /\ boundaries' = DetectChapterBoundaries(slides_text)
    /\ \E raises \in BOOLEAN :
          /\ raises => slides_text # <<>>
          /\ pc' = IF raises THEN "refused" ELSE "split"
          /\ response' = IF raises THEN Reply(400) ELSE response
    /\ UNCHANGED << slides_text, db, request, library, template_file,
                    num_sources, opened, template, blank_layout, source,
                    slide_no, src_slide, dest_slide, rel_map, trace, report,
                    output >>

\* POST /ppt-import after process_ppt_import: save_import_result of one
\* chapter per boundary, and the answer; the work on the deck is over.
StoreImport ==
    /\ pc = "split"
    /\ db' = SaveImportResult(db, Len(boundaries))
    /\ response' = [Reply(200) EXCEPT !.id = db.job_seq + 1]
    /\ slides_text' = <<>>
    /\ boundaries' = <<>>
    /\ pc' = "saved"
    /\ UNCHANGED << request, library, template_file, num_sources, opened,
                    template, blank_layout, source, slide_no, src_slide,
                    dest_slide, rel_map, trace, report, output >>

\* DELETE /api/practice-library/chapters/{chapter_id}.
ApiPracticeDeleteChapter ==
    /\ pc = "saved"
    /\ \E id \in 1..(db.chapter_seq + 1) :
          /\ request' = Request("delete_chapter", NoUpload, <<>>, id)
          /\ db' = DeleteChapter(db, id).db
          /\ response' = IF DeleteChapter(db, id).found
                         THEN [Reply(200) EXCEPT !.id = id]
                         ELSE Reply(404)
    /\ UNCHANGED << pc, slides_text, boundaries, library, template_file,
                    num_sources, opened, template, blank_layout, source,
                    slide_no, src_slide, dest_slide, rel_map, trace, report,
                    output >>

\* The import of decks into the practice library and the deletion of
\* chapters from it.
InitImport ==
    /\ pc = "intake"
    /\ template_file = NoFile
    /\ num_sources = 0
    /\ InitLocals
    /\ InitIntake
    /\ library = EmptyLibrary
    /\ request = NoRequest
    /\ response = NoReply

NextImport ==
    \/ ReceiveDeck
    \/ ProcessPptImport
    \/ StoreImport
    \/ ApiPracticeDeleteChapter

SpecImport == InitImport /\ [][NextImport]_vars

\* ------------------------------------------------------------- properties
\* The shapes a slide copy clones, in the order it clones them.
RECURSIVE NonPlaceholders(_)
NonPlaceholders(shapes) ==
    IF shapes = <<>> THEN <<>>
    ELSE IF IsPlaceholder(Head(shapes)) THEN NonPlaceholders(Tail(shapes))
         ELSE <<Head(shapes)>> \o NonPlaceholders(Tail(shapes))

ClonedShapes(slide) == NonPlaceholders(slide.slide_layout.shapes) \o slide.shapes

\* The slide copy (both passes) is over.
ShapesCopied == pc \in {"copy_bg", "normalize", "count"}
BackgroundCopied == pc \in {"normalize", "count"}

\* C1: when merge_with_template returns, total_source_files is the number
\* of source paths, total_source_slides the sum of the slide counts of the
\* source decks, and imported_slides equals total_source_slides.
C1_ReportCounts ==
    pc = "done" =>
        /\ report.total_source_files = num_sources
        /\ Len(opened) = num_sources
        /\ report.total_source_slides = SumSeq(opened)
        /\ report.imported_slides = report.total_source_slides

C1_Witness ==
    /\ pc = "done"
    /\ opened = <<2, 1>>
    /\ report.imported_slides = 3

C3_ImportOrder ==
    pc = "done" =>
        /\ \A i, j \in (template_file.pre + 1)..Len(output.slides) :
              i < j =>
                 \/ output.slides[i].src < output.slides[j].src
                 \/ /\ output.slides[i].src = output.slides[j].src
                    /\ output.slides[i].idx < output.slides[j].idx
        /\ \A d \in 1..Len(opened) : \A k \in 1..opened[d] :
              \E i \in 1..Len(output.slides) :
                 output.slides[i] = [src |-> d, idx |-> k]

C3_Witness ==
    /\ pc = "done"
    /\ opened = <<2, 2>>
    /\ Len(output.slides) = template_file.pre + 4

\* C4: the destination is saved exactly once, after the last slide of the
\* last source deck; when opening a package fails or an exception leaves a
\* slide's processing, merge_with_template raises and nothing was written.
C4_SavedOnceAtEnd ==
    /\ output.saves <= 1
    /\ pc = "done" => output.saves = 1
    /\ pc # "done" => output.saves = 0
    /\ output.saves = 1 =>
          /\ Len(opened) = num_sources
          /\ slide_no = source.n
          /\ report.imported_slides = SumSeq(opened)
          /\ output.slides = template.slides

\* An exception left the copy of a slide after an earlier slide was done.
C4_Witness ==
    /\ pc = "failed"
    /\ report.imported_slides >= 1
    /\ src_slide # IdleSrcSlide
    /\ output.saves = 0

\* C5: after a slide copy every relationship-id attribute left in a shape
\* cloned into the destination slide is an id of the destination slide's
\* own relationship table.
C5_CloneRefsResolve ==
    ShapesCopied =>
        \A i \in 1..Len(dest_slide.shapes) :
            \A n \in 1..Len(dest_slide.shapes[i].nodes) :
                \A a \in 1..Len(dest_slide.shapes[i].nodes[n].attrs) :
                    dest_slide.shapes[i].nodes[n].attrs[a]
                        \in DOMAIN dest_slide.rels

\* C6: when the effective source background holds a relationship
\* reference, after the background step that reference is an id of the
\* destination slide's own relationship table.
C6_BackgroundRefResolves ==
    (BackgroundCopied /\ dest_slide.bg # <<>> /\ dest_slide.bg[1].rid # 0) =>
        dest_slide.bg[1].rid \in DOMAIN dest_slide.rels

\* C7: within one slide copy, every remap of a (source part, old id) pair
\* gives the result of the first remap of that pair, and a second or later
\* remap adds no relationship and no part to the destination.
C7_RemapIdempotent ==
    \A i, j \in 1..Len(trace) :
        (i < j /\ trace[i].part = trace[j].part /\ trace[i].old = trace[j].old)
        => /\ trace[j].new = trace[i].new
           /\ trace[j].act = trace[i].act
           /\ ~trace[j].grew

\* A pair was remapped twice, the first time adding to the destination and
\* giving an id other than the old one.
C7_Witness ==
    \E i, j \in 1..Len(trace) :
        /\ i < j
        /\ trace[i].part = trace[j].part
        /\ trace[i].old = trace[j].old
        /\ trace[i].act = "set"
        /\ trace[i].grew
        /\ trace[i].new # trace[i].old

\* C8: the clone of every source slide shape bound to a title or ctrTitle
\* placeholder has a size and a solid fill on all of its text: every run
\* has a style element, and every style element has both.
C8_TitleStyleExplicit ==
    ShapesCopied =>
        \A i \in 1..Len(src_slide.shapes) :
            IsTitleClass(src_slide.shapes[i].ph) =>
                \A d \in 1..Len(dest_slide.shapes) :
                    dest_slide.shapes[d].name = src_slide.shapes[i].name =>
                        \A r \in 1..Len(dest_slide.shapes[d].runs) :
                            /\ dest_slide.shapes[d].runs[r].kind # "r"
                            /\ dest_slide.shapes[d].runs[r].sz # 0
                            /\ dest_slide.shapes[d].runs[r].fill

RoundedTo(r, v, dst, src) ==
    /\ r * src - v * dst <= src
    /\ v * dst - r * src <= src

\* C10: for a source deck of another size, every shape ends with left and
\* top scaled by dst/src per axis and width and height scaled and kept at 1
\* or more, each rounded to an integer; (100, 100, 200, 200) in a deck half
\* the destination's size ends at (200, 200, 400, 400).
C10_Rescaled ==
    [][ (pc = "normalize" /\ source.dims # TargetDims /\ pc' = "count") =>
           /\ Len(dest_slide'.shapes) = Len(dest_slide.shapes)
           /\ \A i \in 1..Len(dest_slide.shapes) :
                 LET old == dest_slide.shapes[i].xfrm
                     new == dest_slide'.shapes[i].xfrm
                     sw == source.dims[1]
                     sh == source.dims[2]
                     dw == TargetDims[1]
                     dh == TargetDims[2]
                 IN  /\ old # <<>>
                     /\ RoundedTo(new[1], old[1], dw, sw)
                     /\ RoundedTo(new[2], old[2], dh, sh)
                     /\ new[3] >= 1
                     /\ new[4] >= 1
                     /\ \E r \in 0..(old[3] * dw) :
                           RoundedTo(r, old[3], dw, sw) /\ new[3] = Max(1, r)
                     /\ \E r \in 0..(old[4] * dh) :
                           RoundedTo(r, old[4], dh, sh) /\ new[4] = Max(1, r)
                     /\ (old = <<100, 100, 200, 200>>
                         /\ 2 * sw = dw /\ 2 * sh = dh)
                        => new = <<200, 200, 400, 400>>
      ]_vars

C10_Witness ==
    /\ pc = "count"
    /\ source.dims = <<2, 2>>
    /\ \E i \in 1..Len(dest_slide.shapes) :
          dest_slide.shapes[i].xfrm = <<200, 200, 400, 400>>

\* C11: layout_adjusted_slides starts at 0 and grows by one exactly in the
\* step that finishes normalizing a slide of a deck whose width or height
\* differs from the destination's, which is the slide counted as imported
\* next; so when merge_with_template returns it is the number of imported
\* slides of such decks, and 0 <= layout_adjusted_slides <= imported_slides.
C11_AdjustedCount ==
    /\ [](pc = "start" => report.layout_adjusted_slides = 0)
    /\ [](pc = "done" =>
            /\ 0 <= report.layout_adjusted_slides
            /\ report.layout_adjusted_slides <= report.imported_slides)
    /\ [][ report'.layout_adjusted_slides =
              report.layout_adjusted_slides
              + (IF pc = "normalize" /\ pc' = "count"
                    /\ source.dims # TargetDims
                 THEN 1 ELSE 0)
         ]_vars

\* A merge of a deck of another size and of a deck of the destination's
\* size has returned.
C11_Witness ==
    /\ pc = "done"
    /\ opened = <<1, 2>>
    /\ report.layout_adjusted_slides = 1
    /\ report.imported_slides = 3

\* C12: no step of a merge, finished or aborted, changes the source: a
\* source slide, with its layout, master, shape trees, backgrounds and
\* relationship tables, is the same after every step that works on it as
\* it was read, and the open deck's size and slide list stay as opened;
\* the stripping, materialization, styling, id rewriting and rescaling
\* are seen on the clones alone.
C12_SourceUntouched ==
    [][ /\ pc = "copy_layout" => src_slide' \in SlideCatalogue
        /\ pc \in {"copy_slide", "copy_bg", "normalize"} =>
              src_slide' = src_slide
        /\ pc \in {"clear", "overlay", "copy_layout", "copy_slide", "copy_bg",
                    "normalize", "count"} => source' = source
      ]_vars

\* A title placeholder was cloned, stripped, styled and rescaled, next to
\* the clones of its layout's decoration.
C12_Witness ==
    /\ pc = "count"
    /\ source.dims # TargetDims
    /\ src_slide.slide_layout = LayoutDecor
    /\ \E i \in 1..Len(src_slide.shapes) : \E d \in 1..Len(dest_slide.shapes) :
          /\ src_slide.shapes[i].name = dest_slide.shapes[d].name
          /\ IsTitleClass(src_slide.shapes[i].ph)
          /\ dest_slide.shapes[d].ph = <<>>
          /\ dest_slide.shapes[d].xfrm # src_slide.shapes[i].xfrm
          /\ dest_slide.shapes[d].runs # src_slide.shapes[i].runs

\* C13: the layout _pick_blank_layout returns is a layout of the deck
\* whose score no layout of the deck undercuts, and no layout before it in
\* the deck's enumeration has that score.
C13_FirstMinimum ==
    pc \in {"loop", "done"} =>
        LET ls == template_file.layouts
        IN  /\ blank_layout \in 1..Len(ls)
            /\ \A j \in 1..Len(ls) :
                  LayoutScore(ls[blank_layout]) <= LayoutScore(ls[j])
            /\ \A j \in 1..(blank_layout - 1) :
                  LayoutScore(ls[j]) # LayoutScore(ls[blank_layout])

\* Two different layouts share the minimum and the first was returned.
C13_Witness ==
    /\ pc = "done"
    /\ Len(template_file.layouts) = 2
    /\ template_file.layouts[1] # template_file.layouts[2]
    /\ LayoutScore(template_file.layouts[1])
          = LayoutScore(template_file.layouts[2])
    /\ blank_layout = 1

\* The slide's own shapes hold a reference to an image relationship that
\* neither the image copy nor the raw relationship copy can bring over.
HoldsUncopyableImage(slide) ==
    \E i \in 1..Len(slide.shapes) :
        \E n \in 1..Len(slide.shapes[i].nodes) :
            \E a \in 1..Len(slide.shapes[i].nodes[n].attrs) :
                LET id == slide.shapes[i].nodes[n].attrs[a]
                IN  /\ id \in DOMAIN slide.rels
                    /\ slide.rels[id].reltype = "image"
                    /\ ~slide.rels[id].imgOk
                    /\ ~slide.rels[id].rawOk

\* C14: when a slide holds an image reference for which the image copy and
\* the raw relationship copy both fail, the pass over the slide's shapes
\* still finishes: every shape is cloned, the clones hold no reference
\* outside the destination slide's table, and the merge goes on with the
\* background.
C14_UncopyableImageDropped ==
    [][ (pc = "copy_slide" /\ HoldsUncopyableImage(src_slide)) =>
           /\ pc' = "copy_bg"
           /\ Len(dest_slide'.shapes)
                 = Len(dest_slide.shapes) + Len(src_slide.shapes)
           /\ \A i \in (Len(dest_slide.shapes) + 1)..Len(dest_slide'.shapes) :
                 \A n \in 1..Len(dest_slide'.shapes[i].nodes) :
                    \A a \in 1..Len(dest_slide'.shapes[i].nodes[n].attrs) :
                       dest_slide'.shapes[i].nodes[n].attrs[a]
                          \in DOMAIN dest_slide'.rels
      ]_vars

\* The request carried a template deck and one or more sources named
\* .pptx, and every one of these files was opened as a deck.
UploadsAreDecks ==
    /\ request.op = "merge"
    /\ request.template.given /\ request.template.pptx
    /\ request.template.size > 0
    /\ request.template.file.ok
    /\ Len(request.sources) >= 1
    /\ \A i \in 1..Len(request.sources) : request.sources[i]
    /\ Len(opened) = Len(request.sources)

\* C15: the response to POST /merge with a template and one or more .pptx
\* sources has status 200, the presentation media type, a zip package as
\* body and X-Merge-Imported-Slides equal to the slides of the sources.
C15_MergeEndpoint ==
    (pc = "responded" /\ UploadsAreDecks) =>
        /\ response.status = 200
        /\ response.media = "pptx"
        /\ response.body = "PK"
        /\ response.imported = SumSeq(opened)

\* C16: _resolve_template_path returns the uploaded template when the
\* request carries one; with no upload it returns the template of the
\* highest id in the library, whatever uploads, activations and deletions
\* came before, and refuses with 400 when the library is empty too.
C16_UploadElseLatest ==
    request.op = "resolve" =>
        IF request.template.given
        THEN (request.template.pptx /\ request.template.size > 0) =>
                /\ response.status = 0
                /\ response.source = "upload"
        ELSE IF library.ids = {} THEN response.status = 400
        ELSE /\ response.status = 0
             /\ response.source = "unified_db"
             /\ response.id = LatestId(library.ids)

\* The relationship table of a part of the source slide.
SourceTable(slide, part) ==
    IF part = "layout" THEN slide.slide_layout.rels ELSE slide.rels

\* C17: within one slide copy every rewritten reference, first-time or
\* served from the cache, names a destination relationship with the type
\* and target that the old id has in the table of the reference's own
\* source part, also when the layout and the slide use the same id value;
\* and every entry of the cache was created by a remap of this slide copy.
C17_KeyedOnPart ==
    pc \in {"copy_slide", "copy_bg", "normalize", "count"} =>
        /\ \A i \in 1..Len(trace) :
              trace[i].act = "set" =>
                 LET rel == SourceTable(src_slide, trace[i].part)[trace[i].old]
                 IN  /\ trace[i].new \in DOMAIN dest_slide.rels
                     /\ dest_slide.rels[trace[i].new].reltype = rel.reltype
                     /\ dest_slide.rels[trace[i].new].target = rel.target
        /\ \A key \in DOMAIN rel_map :
              \E i \in 1..Len(trace) :
                 /\ RelKey(trace[i].part, trace[i].old) = key
                 /\ trace[i].act = "set"
                 /\ trace[i].new = rel_map[key]

\* After an earlier slide was imported, a slide copy rewrote id 2 of the
\* layout and id 2 of the slide, which name different images.
C17_Witness ==
    /\ pc = "copy_bg"
    /\ report.imported_slides >= 1
    /\ \E i, j \in 1..Len(trace) :
          /\ trace[i].part = "layout" /\ trace[j].part = "slide"
          /\ trace[i].old = trace[j].old
          /\ trace[i].act = "set" /\ trace[j].act = "set"
          /\ trace[i].new # trace[j].new
          /\ dest_slide.rels[trace[i].new].target = "blobC"
          /\ dest_slide.rels[trace[j].new].target = "blobA"

\* The source part of the i-th shape a slide copy clones.
ClonedFrom(slide, i) ==
    IF i <= Len(NonPlaceholders(slide.slide_layout.shapes))
    THEN "layout" ELSE "slide"

\* The element carries a reference to a tags-type relationship of the table.
HasTagsRef(node, rels) ==
    \E a \in 1..Len(node.attrs) :
        /\ node.attrs[a] \in DOMAIN rels
        /\ rels[node.attrs[a]].reltype = "tags"

RECURSIVE CountTagged(_, _)
CountTagged(nodes, rels) ==
    IF nodes = <<>> THEN 0
    ELSE (IF HasTagsRef(Head(nodes), rels) THEN 1 ELSE 0)
         + CountTagged(Tail(nodes), rels)

\* C18: after a slide copy every clone has lost exactly the elements that
\* carried a tags reference, whatever came before or after them in the
\* walk; a tags reference added nothing to the destination slide's table
\* or package, and nothing is cached for it.
C18_TagsElementsRemoved ==
    ShapesCopied =>
        /\ \A i \in 1..Len(dest_slide.shapes) :
              LET from == ClonedShapes(src_slide)[i]
                  rels == SourceTable(src_slide, ClonedFrom(src_slide, i))
              IN  Len(dest_slide.shapes[i].nodes)
                     = Len(from.nodes) - CountTagged(from.nodes, rels)
        /\ \A r \in DOMAIN dest_slide.rels :
              dest_slide.rels[r].reltype # "tags"
        /\ \A i \in 1..Len(trace) :
              trace[i].act = "drop" =>
                 /\ ~trace[i].grew
                 /\ RelKey(trace[i].part, trace[i].old) \notin DOMAIN rel_map

\* The transform of the container's placeholder with this binding; none
\* when the container has no such placeholder or it has no transform.
PlaceholderXfrm(shapes, ph) ==
    IF FindPlaceholderShape(shapes, ph) = <<>> THEN <<>>
    ELSE FindPlaceholderShape(shapes, ph)[1].xfrm

\* C19: the clone of a title-class placeholder without a transform of its
\* own has the transform of the layout's matching placeholder when that
\* one has a transform, else the transform of the master's matching
\* placeholder, and none only when neither level gives one.
C19_GeometryFromLayoutElseMaster ==
    pc \in {"copy_bg", "normalize"} =>
        \A i \in 1..Len(src_slide.shapes) :
            LET shape == src_slide.shapes[i]
                clone == dest_slide.shapes[
                             Len(NonPlaceholders(src_slide.slide_layout.shapes))
                             + i]
                inLayout == PlaceholderXfrm(src_slide.slide_layout.shapes,
                                            shape.ph)
                inMaster == PlaceholderXfrm(
                                src_slide.slide_layout.master.shapes, shape.ph)
            IN  (IsTitleClass(shape.ph) /\ shape.xfrm = <<>>) =>
                    clone.xfrm = IF inLayout # <<>> THEN inLayout
                                 ELSE inMaster

\* The sizes the style elements of one kind declare, in document order.
DeclaredSizes(runs, kind) ==
    SelectSeq(runs, LAMBDA n : n.kind = kind /\ n.sz # 0)

\* The explicit size a level declares, 0 for none: that of the matching
\* placeholder of a container, or of the shape itself.
SizeOfShape(shape) ==
    IF DeclaredSizes(shape.runs, "rPr") # <<>>
    THEN DeclaredSizes(shape.runs, "rPr")[1].sz
    ELSE IF DeclaredSizes(shape.runs, "endParaRPr") # <<>>
    THEN DeclaredSizes(shape.runs, "endParaRPr")[1].sz
    ELSE 0

SizeOfLevel(shapes, ph) ==
    IF \E k \in 1..Len(shapes) : shapes[k].ph = ph
    THEN SizeOfShape(shapes[CHOOSE k \in 1..Len(shapes) :
                               /\ shapes[k].ph = ph
                               /\ \A j \in 1..(k - 1) : shapes[j].ph # ph])
    ELSE 0

\* The sizes of the three levels, in search order.
LevelSizes(shape, slide) ==
    << SizeOfShape(shape),
       SizeOfLevel(slide.slide_layout.shapes, shape.ph),
       SizeOfLevel(slide.slide_layout.master.shapes, shape.ph) >>

\* C20: for every title-class shape of a source slide,
\* _resolve_effective_title_size gives the size of the first of the three
\* levels (shape, layout placeholder, master placeholder) that declares
\* one, and none (0) only when no level declares one; the clone's style
\* elements that had no size carry that size, or the default for none.
C20_FirstDeclaredSize ==
    ShapesCopied =>
        \A i \in 1..Len(src_slide.shapes) :
            LET shape == src_slide.shapes[i]
                clone == dest_slide.shapes[
                             Len(NonPlaceholders(src_slide.slide_layout.shapes))
                             + i]
                sizes == LevelSizes(shape, src_slide)
                got == ResolveEffectiveTitleSize(shape, src_slide)
            IN  IsTitleClass(shape.ph) =>
                    /\ (got = 0) <=> (\A l \in 1..3 : sizes[l] = 0)
                    /\ \A l \in 1..3 :
                          (sizes[l] # 0 /\ \A m \in 1..(l - 1) : sizes[m] = 0)
                          => got = sizes[l]
                    /\ \A r \in 1..Len(shape.runs) :
                          (shape.runs[r].kind # "r" /\ shape.runs[r].sz = 0)
                          => clone.runs[r].sz
                                = IF got = 0 THEN DefaultTitleSize ELSE got

\* A title without a size of its own, on a layout whose title placeholder
\* declares none, was cloned with the size of the master's placeholder.
C20_Witness ==
    /\ pc = "copy_bg"
    /\ src_slide.slide_layout = LayoutDecor
    /\ \E i \in 1..Len(src_slide.shapes) : \E d \in 1..Len(dest_slide.shapes) :
          /\ IsTitleClass(src_slide.shapes[i].ph)
          /\ LevelSizes(src_slide.shapes[i], src_slide) = <<0, 0, 4000>>
          /\ dest_slide.shapes[d].name = src_slide.shapes[i].name
          /\ \E r \in 1..Len(dest_slide.shapes[d].runs) :
                dest_slide.shapes[d].runs[r].sz = 4000

\* The clone of the i-th shape of the source slide's own shape list.
CloneOf(i) ==
    dest_slide.shapes[Len(NonPlaceholders(src_slide.slide_layout.shapes)) + i]

\* The first size the three levels declare, 0 for none.
FirstLevelSize(sizes) ==
    IF sizes[1] # 0 THEN sizes[1]
    ELSE IF sizes[2] # 0 THEN sizes[2]
    ELSE sizes[3]

\* C21: in the clone of a title-class placeholder every rPr / endParaRPr
\* node that had no size has the resolved size, or 2400 when no size was
\* resolved, and a node that had a size keeps it; every such node has a
\* solid fill, the theme colour tx1 exactly when it had none, its own
\* unchanged otherwise; no style node is added or removed.
C21_TitleStyleNodes ==
    ShapesCopied =>
        \A i \in 1..Len(src_slide.shapes) :
            LET shape == src_slide.shapes[i]
                resolved == FirstLevelSize(LevelSizes(shape, src_slide))
            IN  IsTitleClass(shape.ph) =>
                    /\ Len(CloneOf(i).runs) = Len(shape.runs)
                    /\ \A r \in 1..Len(shape.runs) :
                          LET old == shape.runs[r]
                              new == CloneOf(i).runs[r]
                          IN  IF old.kind = "r" THEN new = old
                              ELSE /\ new.kind = old.kind
                                   /\ new.sz = IF old.sz # 0 THEN old.sz
                                               ELSE IF resolved # 0
                                               THEN resolved
                                               ELSE DefaultTitleSize
                                   /\ new.fill
                                   /\ new.clr = IF old.fill THEN old.clr
                                                ELSE "tx1"

\* A title whose run had a size and a fill of its own and whose paragraph
\* end had neither was cloned.
C21_Witness ==
    /\ ShapesCopied
    /\ \E i \in 1..Len(src_slide.shapes) :
          /\ IsTitleClass(src_slide.shapes[i].ph)
          /\ src_slide.shapes[i].runs
                = <<StyleNode("rPr", 4400, TRUE),
                    StyleNode("endParaRPr", 0, FALSE)>>
          /\ CloneOf(i).runs[1].clr = "accent1"
          /\ CloneOf(i).runs[2].sz = 4400
          /\ CloneOf(i).runs[2].clr = "tx1"

\* The geometry the slide, its layout or its master defines for a
\* placeholder shape of the slide: the first transform of the three.
DefinedGeometry(shape, slide) ==
    IF shape.xfrm # <<>> THEN shape.xfrm
    ELSE IF PlaceholderXfrm(slide.slide_layout.shapes, shape.ph) # <<>>
    THEN PlaceholderXfrm(slide.slide_layout.shapes, shape.ph)
    ELSE PlaceholderXfrm(slide.slide_layout.master.shapes, shape.ph)

\* C22: the clone of every placeholder shape of the source slide, of any
\* placeholder class, has lost its binding and has a transform of its own
\* whenever the slide, its layout or its master defines one for it.
C22_StrippedHasGeometry ==
    ShapesCopied =>
        \A i \in 1..Len(src_slide.shapes) :
            IsPlaceholder(src_slide.shapes[i]) =>
                /\ ~IsPlaceholder(CloneOf(i))
                /\ DefinedGeometry(src_slide.shapes[i], src_slide) # <<>>
                   => CloneOf(i).xfrm # <<>>

\* The names of the shapes of a list, in order.
Names(shapes) == [i \in 1..Len(shapes) |-> shapes[i].name]

\* C23: after a slide copy the destination slide's shape tree is, by name
\* and in order, the source layout's non-placeholder shapes followed by
\* the source slide's own shapes: no shape of the host layout is left, no
\* placeholder of the source layout is there, every layout-level clone
\* comes before every slide-level clone, and no clone has a binding.
C23_ShapeTreeOrder ==
    ShapesCopied =>
        /\ Names(dest_slide.shapes)
              = Names(SelectSeq(src_slide.slide_layout.shapes,
                                LAMBDA s : s.ph = <<>>))
                \o Names(src_slide.shapes)
        /\ \A i \in 1..Len(dest_slide.shapes) :
              /\ dest_slide.shapes[i].ph = <<>>
              /\ dest_slide.shapes[i].name # "host"

\* The host layout populated the new slide, and the slide copy left two
\* layout decorations (the layout's placeholder between them skipped)
\* below a slide shape.
C23_Witness ==
    /\ pc = "copy_bg"
    /\ HostPlaceholders(template_file.layouts[blank_layout].shapes, 1) # <<>>
    /\ Names(src_slide.slide_layout.shapes) = <<"lArt", "lTitle", "lLogo">>
    /\ Len(src_slide.shapes) = 1
    /\ IsPlaceholder(src_slide.shapes[1])
    /\ Names(dest_slide.shapes)
          = <<"lArt", "lLogo", src_slide.shapes[1].name>>

\* The backgrounds the three levels of a source slide define, in the
\* order slide, layout, master.
BackgroundLevels(slide) ==
    << slide.bg, slide.slide_layout.bg, slide.slide_layout.master.bg >>

\* C24: the background step always goes on to the normalization; after it
\* the destination slide has at most one background element, which is a
\* copy of the background of the first of the levels slide, layout, master
\* that defines one, and what the destination slide had before when no
\* level defines one.
C24_BackgroundResolution ==
    [][ pc = "copy_bg" =>
           LET levels == BackgroundLevels(src_slide)
               defined == { l \in 1..3 : levels[l] # <<>> }
           IN  /\ pc' = "normalize"
               /\ Len(dest_slide'.bg) <= 1
               /\ IF defined = {} THEN dest_slide'.bg = dest_slide.bg
                  ELSE \E l \in defined :
                          /\ \A m \in defined : l <= m
                          /\ dest_slide'.bg = levels[l]
      ]_vars

\* The slide and its layout define no background and the destination slide
\* took the master's.
C24_Witness ==
    /\ pc = "normalize"
    /\ BackgroundLevels(src_slide)[1] = <<>>
    /\ BackgroundLevels(src_slide)[2] = <<>>
    /\ BackgroundLevels(src_slide)[3] # <<>>
    /\ dest_slide.bg = BackgroundLevels(src_slide)[3]

\* C25: for a deck of another size than the destination's, the
\* normalization of every slide finishes and counts the slide as adjusted;
\* it leaves each shape without a transform without one and gives each
\* shape with a transform the scaled one.
C25_NormalizeSkipsNoGeometry ==
    [][ (pc = "normalize" /\ source.dims # TargetDims) =>
           /\ pc' = "count"
           /\ report'.layout_adjusted_slides
                 = report.layout_adjusted_slides + 1
           /\ Len(dest_slide'.shapes) = Len(dest_slide.shapes)
           /\ \A i \in 1..Len(dest_slide.shapes) :
                 dest_slide'.shapes[i].xfrm
                    = IF dest_slide.shapes[i].xfrm = <<>> THEN <<>>
                      ELSE ScaleXfrm(dest_slide.shapes[i].xfrm, source.dims,
                                     TargetDims)
      ]_vars

\* The score of a layout without its name bonus.
BaseScore(layout) ==
    100 * Len(SelectSeq(layout.shapes, LAMBDA s : s.ph))
    + 10 * Len(SelectSeq(layout.shapes, LAMBDA s : s.text))
    + Len(layout.shapes)

\* The name bonus the scores of the layouts of the opened deck carry.
NameBonus(j) ==
    LayoutScore(template_file.layouts[j]) - BaseScore(template_file.layouts[j])

LayoutPicked == pc \in {"loop", "done"}

\* C26 (as stated): the name bonus of every layout of the deck is exactly
\* one of -200 (blank name), -20 (title-slide name) and 0 (neither), also
\* for a name that is both.
C26_OneNameBonus ==
    LayoutPicked =>
        \A j \in 1..Len(template_file.layouts) :
            LET l == template_file.layouts[j]
            IN  /\ NameBonus(j) \in {-200, -20, 0}
                /\ (l.blank /\ ~l.titleSlide) => NameBonus(j) = -200
                /\ (l.titleSlide /\ ~l.blank) => NameBonus(j) = -20
                /\ (~l.blank /\ ~l.titleSlide) => NameBonus(j) = 0

\* C26 (amended): the score is 100 per placeholder, 10 per shape with text
\* and 1 per shape, plus a name bonus that is the sum of -200 for a blank
\* name and -20 for a title-slide name, -220 for a name that is both; the
\* picked layout has the least such score.
C26_SummedNameBonus ==
    LayoutPicked =>
        /\ \A j \in 1..Len(template_file.layouts) :
              LET l == template_file.layouts[j]
              IN  NameBonus(j) = (IF l.blank THEN -200 ELSE 0)
                                 + (IF l.titleSlide THEN -20 ELSE 0)
        /\ \A j \in 1..Len(template_file.layouts) :
              LayoutScore(template_file.layouts[blank_layout])
                 <= BaseScore(template_file.layouts[j])
                    + (IF template_file.layouts[j].blank THEN -200 ELSE 0)
                    + (IF template_file.layouts[j].titleSlide THEN -20 ELSE 0)

\* A layout named both blank and title slide was picked after a layout
\* named blank only that has the same shapes.
C26_Witness ==
    /\ pc = "done"
    /\ Len(template_file.layouts) = 2
    /\ template_file.layouts[1].blank /\ ~template_file.layouts[1].titleSlide
    /\ template_file.layouts[2].blank /\ template_file.layouts[2].titleSlide
    /\ template_file.layouts[1].shapes = template_file.layouts[2].shapes
    /\ Len(template_file.layouts[2].shapes) = 2
    /\ template_file.layouts[2].shapes[1].text
    /\ NameBonus(2) = -220
    /\ blank_layout = 2

\* The order of the steps of merge_with_template: from each position the
\* positions the next step may lead to.
StepOrder ==
    { <<"start", "loop">>, <<"start", "failed">>, <<"loop", "loop">>,
      <<"loop", "failed">>, <<"loop", "clear">>, <<"loop", "done">>,
      <<"clear", "overlay">>, <<"overlay", "copy_layout">>,
      <<"copy_layout", "copy_slide">>, <<"copy_layout", "failed">>,
      <<"copy_slide", "copy_bg">>, <<"copy_slide", "failed">>,
      <<"copy_bg", "normalize">>, <<"normalize", "count">>,
      <<"normalize", "failed">>, <<"count", "loop">> }

\* C27: the host layout is chosen in the first step and never again; each
\* step is followed by the next one of the order create, clear, suppress
\* overlay, layout shapes, slide shapes, background, normalize, count (or
\* by the abort of the merge, which the overlay step never causes); a
\* slide is created only when no slide is in work, and imported_slides
\* grows by one exactly in the last step of a slide.
C27_StepOrder ==
    [][ /\ <<pc, pc'>> \in StepOrder
        /\ pc # "start" => blank_layout' = blank_layout
        /\ pc = "start" /\ pc' = "loop" =>
              /\ blank_layout' = PickBlankLayout(template_file.layouts)
              /\ Len(template'.slides) = template_file.pre
        /\ pc # "start" =>
              Len(template'.slides)
                 = Len(template.slides)
                   + (IF pc = "loop" /\ pc' = "clear" THEN 1 ELSE 0)
        /\ pc = "loop" /\ pc' = "clear" =>
              /\ src_slide = IdleSrcSlide
              /\ dest_slide'.shapes
                    = HostPlaceholders(
                          template_file.layouts[blank_layout].shapes, 1)
        /\ pc = "clear" => dest_slide'.shapes = <<>>
        /\ pc = "overlay" => ~dest_slide'.showMasterSp
        /\ report'.imported_slides
              = report.imported_slides + (IF pc = "count" THEN 1 ELSE 0)
      ]_vars

\* The second slide of a deck went through every step up to the count,
\* after the first was counted.
C27_Witness ==
    /\ pc = "count"
    /\ slide_no = 2
    /\ report.imported_slides = 1
    /\ Len(template.slides) = template_file.pre + 2
    /\ ~dest_slide.showMasterSp
    /\ dest_slide.shapes # <<>>

\* C29: after any sequence of template uploads, activations and deletions
\* the stored active id is set exactly when the library holds a template,
\* and then it is the id of a template of the library; an activation of
\* an unknown id is answered with "not found" and changes nothing.
C29_ActiveIdExists ==
    /\ [](/\ (library.active # 0) <=> (library.ids # {})
          /\ library.active # 0 => library.active \in library.ids)
    /\ [][ (request'.op = "activate" /\ request'.id \notin library.ids) =>
              /\ response'.status = 404
              /\ library' = library
         ]_vars

\* The active template and a later one were deleted and the active id fell
\* back to the one that is left.
C29_Witness ==
    /\ request.op = "delete"
    /\ library.seq = 3
    /\ library.ids = {1}
    /\ library.active = 1

\* The chapter_index values of the chapter rows of a job.
IndicesOfJob(chapters, job_id) ==
    { chapters[c].chapter_index : c \in RowsOfJob(chapters, job_id) }

\* C28: after save_import_result and any deletions of chapters, every
\* job's chapter_count is the number of its remaining chapter rows and
\* their chapter_index values are exactly 1..N, each on one row; the
\* deletion of an unknown chapter id finds nothing (404) and leaves the
\* tables as they were, that of a known id is answered with 200.
C28_CountAndIndices ==
    /\ [](\A j \in DOMAIN db.jobs :
             LET n == Cardinality(RowsOfJob(db.chapters, j))
             IN  /\ db.jobs[j] = n
                 /\ IndicesOfJob(db.chapters, j) = 1..n)
    /\ [][request'.op = "delete_chapter" =>
             IF request'.id \in DOMAIN db.chapters
             THEN /\ response'.status = 200
                  /\ DOMAIN db'.chapters = DOMAIN db.chapters \ {request'.id}
             ELSE /\ response'.status = 404
                  /\ db' = db]_vars

\* A job saved with three chapters has lost its second one: the third is
\* now chapter 2 of 2.
C28_Witness ==
    /\ request.op = "delete_chapter"
    /\ request.id = 2
    /\ response.status = 200
    /\ 1 \in DOMAIN db.jobs
    /\ db.jobs[1] = 2
    /\ RowsOfJob(db.chapters, 1) = {1, 3}
    /\ db.chapters[3].chapter_index = 2

\* C30: for a non-empty list of n slide texts the boundaries partition
\* 0..n-1: the first interval starts at 0, the last ends at n, each ends
\* where the next starts, and every interval has start < end; for an empty
\* list there are no boundaries.
C30_BoundariesPartition ==
    pc \in {"split", "refused"} =>
        IF slides_text = <<>> THEN boundaries = <<>>
        ELSE /\ boundaries # <<>>
             /\ boundaries[1][1] = 0
             /\ boundaries[Len(boundaries)][2] = Len(slides_text)
             /\ \A k \in 1..(Len(boundaries) - 1) :
                   boundaries[k][2] = boundaries[k + 1][1]
             /\ \A k \in 1..Len(boundaries) :
                   boundaries[k][1] < boundaries[k][2]

\* Three slides, the first and the third a chapter start: two chapters,
\* 0..1 and 2.
C30_Witness ==
    /\ pc = "split"
    /\ Len(slides_text) = 3
    /\ IsChapterStart(slides_text[1])
    /\ ~IsChapterStart(slides_text[2])
    /\ IsChapterStart(slides_text[3])
    /\ boundaries = << <<0, 2, 0>>, <<2, 3, 2>> >>

====
